---------------------------- MODULE Spec2Model ----------------------------
(***************************************************************************)
(* A model of the MLflow trace dumper scripts:                             *)
(*   src/experiment_trace_dumper.py        ExperimentTraceDumper  (Exp_)   *)
(*   src/mlflow_trace_dumper.py            MLflowTraceDumper      (Mlf_)   *)
(*   src/mlflow/mlflow_trace_dumper.py     MLflowTraceDumper      (Pkg_)   *)
(*   src/mlflow/langraph_trace_dumper.py   LangGraphTraceDumper   (Lg_)    *)
(*                                                                         *)
(* Every script is a single thread of blocking HTTP GETs.  One action of   *)
(* the model is one GET together with the code that consumes its response  *)
(* up to the next GET.  The tracking server's content (srv) is fixed when  *)
(* the script starts; whether a GET answers 200, answers 500 or raises a   *)
(* transport error is decided per request.                                 *)
(*                                                                         *)
(* Python values: a str is a sequence of characters (one-character         *)
(* strings, a non-ASCII character written by its code point "U+...."), a   *)
(* list is a sequence, a dict with fixed keys is a record, a dict with     *)
(* data keys (tags, params) is a function, None is the record None.        *)
(* mlflow_url and dump_timestamp are left out of the documents.            *)
(***************************************************************************)
EXTENDS Integers, Sequences, FiniteSets, TLC

VARIABLES
    srv,        \* what the tracking server holds (never changes)
    pc,         \* the statement the script is at
    doc,        \* the dump document under construction / returned
    exps,       \* experiments of experiments/list, and the loop index
    ei,
    runs,       \* runs of the current runs/search, and the loop index
    ri,
    cur,        \* locals of the per-run function being executed
    log,        \* every HTTP request issued so far, with its outcome
    file,       \* what the writes of the output file have left, in order
    exit_code,  \* the process exit code: "running", 0 or 1
    prev        \* the previous execution of the dump operation on this
                \* dumper (its document and its requests), None at first

vars == <<srv, pc, doc, exps, ei, runs, ri, cur, log, file, exit_code, prev>>

----------------------------------------------------------------------------
(* Bounds of the model.                                                    *)

MaxRuns == 2
MaxExperiments == 2
MaxFaults == 2
MaxArtifacts == 2
MaxApiTraces == 2

----------------------------------------------------------------------------
(* Python strings.                                                         *)

UpperCase == <<"A","B","C","D","E","F","G","H","I","J","K","L","M",
               "N","O","P","Q","R","S","T","U","V","W","X","Y","Z">>
LowerCase == <<"a","b","c","d","e","f","g","h","i","j","k","l","m",
               "n","o","p","q","r","s","t","u","v","w","x","y","z">>

\* str.lower() on one character (the alphabet of the model is ASCII plus
\* uncased symbols).
LowerChar(c) ==
    IF \E i \in 1..Len(UpperCase) : UpperCase[i] = c
    THEN LowerCase[CHOOSE i \in 1..Len(UpperCase) : UpperCase[i] = c]
    ELSE c

Lower(s) == [i \in 1..Len(s) |-> LowerChar(s[i])]

\* `kw in s`
Contains(s, kw) ==
    \E i \in 0..(Len(s) - Len(kw)) : SubSeq(s, i + 1, i + Len(kw)) = kw

\* any(keyword in s for keyword in kws)
AnyKeywordIn(s, kws) == \E i \in 1..Len(kws) : Contains(s, kws[i])

\* len(s) of a str: its number of characters.
StrLen(s) == Len(s)

----------------------------------------------------------------------------
(* Python values.                                                          *)

None == [none |-> TRUE]
EmptyDict == [k \in {} |-> <<>>]

Restrict(d, S) == [k \in S |-> d[k]]

\* json.dumps(x, indent=2): an injective rendering of x.
JsonDumps(x) == [json |-> x]

----------------------------------------------------------------------------
(* HTTP.                                                                   *)

\* The outcome of one GET: status 200, a non-2xx status, or a
\* requests.exceptions.RequestException raised by the transport.
Statuses == {"200", "500", "exc"}

Request(ep, run, path, st) == [ep |-> ep, run |-> run, path |-> path, st |-> st]

NumFaults == Cardinality({i \in 1..Len(log) : log[i].st # "200"})

\* session.get(...): the request is logged with its outcome.
\* In a second execution of a dump operation the server answers the n-th
\* request as it answered the n-th request of the first execution.
Get(ep, run, path, st) ==
    /\ st \in Statuses
    /\ st # "200" => NumFaults < MaxFaults
    /\ (prev # None /\ Len(log) < Len(prev.log)) => st = prev.log[Len(log) + 1].st
    /\ log' = Append(log, Request(ep, run, path, st))

NoPath == <<>>

\* `if output_file:` and the try block around open / json.dump: no file is
\* asked for, the document is written, open fails and leaves nothing, or
\* json.dump fails and leaves a truncated file.
SaveOutcomes == {"none", "written", "open_failed", "write_failed"}

Truncated == [truncated |-> TRUE]

Saved(outcome, document) ==
    CASE outcome = "written" -> Append(file, document)
      [] outcome = "write_failed" -> Append(file, Truncated)
      [] OTHER -> file

----------------------------------------------------------------------------
(* The tracking server.                                                    *)

TracePath == <<"r","u","n","/","t","r","a","c","e",".","j","s","o","n">>
AgentPath == <<"A","g","e","n","t","_","W","o","r","k","f","l","o","w",".","t","x","t">>
ModelPath == <<"m","o","d","e","l",".","p","k","l">>
Paths == {TracePath, AgentPath, ModelPath}

\* The artifact store: what artifacts/download returns for a path.
ArtifactText(path) ==
    CASE path = TracePath -> <<"{","}">>
      [] path = AgentPath -> <<"c","a","f","U+00E9"," ","U+20AC">>
      [] OTHER -> <<"b","i","n">>

\* Items of a traces/search response: with and without a trace_id of their own.
ApiTraceWithId(n) == [trace_id |-> [own |-> n], spans |-> n]
ApiTraceNoId(n) == [spans |-> n]

\* Tags and parameters of runs.
TagLangraph == <<"l","a","n","g","r","a","p","h","_","v","e","r","s","i","o","n">>
TagAgent == <<"A","G","E","N","T",".","i","d">>
TagOwner == <<"o","w","n","e","r">>
TagValue(k) ==
    CASE k = TagLangraph -> <<"1",".","0">>
      [] k = TagAgent -> <<"7">>
      [] OTHER -> <<"t","r","a","c","e","-","t","e","a","m">>
ParamTrace == <<"T","r","a","c","e","L","e","v","e","l">>
ParamRate == <<"l","r">>
ParamValue(k) == IF k = ParamTrace THEN <<"f","u","l","l">> ELSE <<"0",".","1">>

TagsOver(keys) == [k \in keys |-> TagValue(k)]
ParamsOver(keys) == [k \in keys |-> ParamValue(k)]

Profile(name, tagkeys, paramkeys, files, traces) ==
    [run_name |-> name, tags |-> TagsOver(tagkeys), params |-> ParamsOver(paramkeys),
     metrics |-> <<[key |-> <<"l","o","s","s">>, step |-> 1]>>,
     files |-> files, traces |-> traces]

\* The run profiles of the whole-dump specifications.
ArtifactRun ==
    Profile(<<"n","i","g","h","t","l","y">>, {TagOwner}, {ParamRate},
            <<TracePath>>, <<>>)
BareRun ==
    Profile(<<"b","a","s","e","l","i","n","e">>, {}, {ParamRate}, <<>>, <<>>)
TracedRun ==
    Profile(<<"A","g","e","n","t"," ","r","u","n">>, {TagLangraph, TagOwner}, {ParamTrace},
            <<ModelPath, AgentPath>>, <<ApiTraceNoId(1)>>)
PlainRun ==
    Profile(<<"s","w","e","e","p">>, {}, {ParamRate}, <<ModelPath>>, <<>>)
DumpProfiles == <<TracedRun, ArtifactRun, BareRun, PlainRun>>

\* Experiment k of experiments/list.
ExperimentIdOf(k) ==
    (IF k % 2 = 0 THEN <<"a","g","e","n","t","s","-">> ELSE <<"e","x","p","-">>)
        \o [i \in 1..k |-> "1"]
Experiment(k) == [experiment_id |-> ExperimentIdOf(k), name |-> <<"E">> \o ExperimentIdOf(k)]

RECURSIVE SumSeq(_)
SumSeq(s) == IF s = <<>> THEN 0 ELSE Head(s) + SumSeq(Tail(s))

\* Run ids are numbered through the experiments: the runs of experiment e
\* follow those of experiments 1..e-1.
RunIdsOf(counts, e) ==
    [j \in 1..counts[e] |-> SumSeq(SubSeq(counts, 1, e - 1)) + j]

\* A server with Len(counts) experiments, counts[e] runs in experiment e, the
\* run with id r having the profile shift places after the r-th (cyclically).
DumpServer(counts, shift) ==
    [experiments |-> [e \in 1..Len(counts) |-> Experiment(e)],
     runs |-> [e \in 1..Len(counts) |-> RunIdsOf(counts, e)],
     profile |-> [r \in 1..SumSeq(counts) |->
                     DumpProfiles[((r + shift) % Len(DumpProfiles)) + 1]]]

\* n experiments sharing t runs: experiment e holds t \div n runs, and one
\* more when e <= t % n.
Spread(n, t) == [e \in 1..n |-> (t \div n) + (IF e <= t % n THEN 1 ELSE 0)]

RECURSIVE SeqsUpTo(_, _)
SeqsUpTo(Sset, n) ==
    IF n = 0 THEN {<<>>}
    ELSE LET shorter == SeqsUpTo(Sset, n - 1)
         IN  shorter \cup {Append(q, x) : q \in {t \in shorter : Len(t) = n - 1}, x \in Sset}

\* Response bodies.
ExperimentIndex(eid) == CHOOSE e \in 1..Len(srv.experiments) : srv.experiments[e].experiment_id = eid

RunObject(eid, r) ==
    [info |-> [run_id |-> r, run_name |-> srv.profile[r].run_name, experiment_id |-> eid]]

RunsSearchBody(eid) ==
    IF \A e \in 1..Len(srv.experiments) : srv.experiments[e].experiment_id # eid
    THEN <<>>
    ELSE LET e == ExperimentIndex(eid)
         IN  [j \in 1..Len(srv.runs[e]) |-> RunObject(eid, srv.runs[e][j])]

RunExperimentId(r) ==
    LET e == CHOOSE e \in 1..Len(srv.runs) : \E j \in 1..Len(srv.runs[e]) : srv.runs[e][j] = r
    IN  srv.experiments[e].experiment_id

RunsGetBody(r) ==
    [info |-> [run_id |-> r, run_name |-> srv.profile[r].run_name,
               experiment_id |-> RunExperimentId(r)],
     data |-> [tags |-> srv.profile[r].tags, params |-> srv.profile[r].params]]

ArtifactsListBody(r) == [i \in 1..Len(srv.profile[r].files) |-> [path |-> srv.profile[r].files[i]]]

----------------------------------------------------------------------------
(* src/experiment_trace_dumper.py: ExperimentTraceDumper                   *)

KwTrace == <<"t","r","a","c","e">>
KwLangraph == <<"l","a","n","g","r","a","p","h">>
KwAgent == <<"a","g","e","n","t">>
KwExecution == <<"e","x","e","c","u","t","i","o","n">>
KwWorkflow == <<"w","o","r","k","f","l","o","w">>
KwFlow == <<"f","l","o","w">>

Exp_ArtifactKeywords == <<KwTrace, KwLangraph, KwAgent, KwExecution, KwWorkflow, KwFlow>>
Exp_MetadataKeywords == <<KwTrace, KwLangraph, KwAgent>>

\* The experiment the script is asked to dump (--experiment_id).
Exp_experiment_id == ExperimentIdOf(1)

\* The least index >= from of an artifact whose lower-cased path holds a
\* keyword; 0 when there is none: the next iteration of `for artifact in
\* artifacts` that issues a download.
NextMatch(artifacts, from, kws) ==
    LET hits == {i \in from..Len(artifacts) : AnyKeywordIn(Lower(artifacts[i].path), kws)}
    IN  IF hits = {} THEN 0 ELSE CHOOSE i \in hits : \A j \in hits : i <= j

\* Mutant: the synthetic identifier counts from one.
Exp_ApiRecord_OneBased(trace, traces) ==
    [trace_id |-> IF "trace_id" \in DOMAIN trace THEN trace.trace_id
                  ELSE [api_trace |-> Len(traces) + 1],
     source |-> "api", data |-> trace, content |-> JsonDumps(trace)]

\* The record of one item of the traces/search response (lines 126-131);
\* [api_trace |-> n] stands for the string api_trace_<n>.
Exp_ApiRecord(trace, traces) ==
    [trace_id |-> IF "trace_id" \in DOMAIN trace THEN trace.trace_id
                  ELSE [api_trace |-> Len(traces)],
     source |-> "api", data |-> trace, content |-> JsonDumps(trace)]

RECURSIVE Exp_AppendApi(_, _)
Exp_AppendApi(traces, api_traces) ==
    IF api_traces = <<>> THEN traces
    ELSE Exp_AppendApi(Append(traces, Exp_ApiRecord(Head(api_traces), traces)),
                       Tail(api_traces))

Exp_ArtifactSize(trace_content) == StrLen(trace_content)

Exp_ArtifactRecord(artifact_path, trace_content) ==
    [trace_id |-> artifact_path, source |-> "artifact", artifact_path |-> artifact_path,
     content |-> trace_content, size |-> Exp_ArtifactSize(trace_content)]

Exp_TagMatches(k) == AnyKeywordIn(Lower(k), Exp_MetadataKeywords)

Exp_trace_tags(tags) == Restrict(tags, {k \in DOMAIN tags : Exp_TagMatches(k)})
\* Mutant: the parameters are not filtered.
Exp_trace_params_Unfiltered(params) == params

Exp_trace_params(params) == Restrict(params, {k \in DOMAIN params : Exp_TagMatches(k)})

Exp_MetadataRecord(run_id, trace_tags, trace_params) ==
    [trace_id |-> [metadata_trace |-> run_id], source |-> "metadata",
     trace_tags |-> trace_tags, trace_params |-> trace_params,
     content |-> JsonDumps([tags |-> trace_tags, params |-> trace_params])]

\* Method 3 of get_traces_for_run, given the body of runs/get.
Exp_AppendMetadata(traces, run_id, run_data) ==
    LET trace_tags == Exp_trace_tags(run_data.data.tags)
        trace_params == Exp_trace_params(run_data.data.params)
    IN  IF DOMAIN trace_tags # {} \/ DOMAIN trace_params # {}
        THEN Append(traces, Exp_MetadataRecord(run_id, trace_tags, trace_params))
        ELSE traces

Exp_locals(run_id) ==
    [run_id |-> run_id, run_data |-> None, metrics |-> <<>>, run_details |-> None,
     traces |-> <<>>, artifacts |-> <<>>, ai |-> 0]

NoLocals == [run_id |-> 0]

\* Mutant: the counters of a second execution start from the first
\* execution's totals.
Exp_document_KeepsTotals(experiment_info) ==
    [metadata |-> [experiment_id |-> Exp_experiment_id,
                   experiment_name |-> experiment_info.name,
                   total_runs |-> 0,
                   total_traces |-> IF prev # None /\ "metadata" \in DOMAIN prev.doc
                                    THEN prev.doc.metadata.total_traces ELSE 0],
     experiment_info |-> experiment_info,
     runs |-> <<>>]

\* experiment_traces of dump_experiment_traces, lines 262-273 (mlflow_url and
\* dump_timestamp are left out).
Exp_document(experiment_info) ==
    [metadata |-> [experiment_id |-> Exp_experiment_id,
                   experiment_name |-> experiment_info.name,
                   total_runs |-> 0, total_traces |-> 0],
     experiment_info |-> experiment_info,
     runs |-> <<>>]

\* Mutant: a non-200 answer of /health is fatal as well.
Exp_test_connection_FatalOnStatus ==
    /\ pc = "Exp.connect"
    /\ \E st \in Statuses :
         /\ Get("health", 0, NoPath, st)
         /\ IF st # "200"
            THEN pc' = "exit" /\ exit_code' = "1"
            ELSE pc' = "Exp.get_experiment_info" /\ exit_code' = exit_code
    /\ UNCHANGED <<srv, prev, doc, exps, ei, runs, ri, cur, file>>

\* __init__ / _test_connection: GET /health; only a transport error is
\* raised, and main turns it into exit code 1.
Exp_test_connection ==
    /\ pc = "Exp.connect"
    /\ \E st \in Statuses :
         /\ Get("health", 0, NoPath, st)
         /\ IF st = "exc"
            THEN pc' = "exit" /\ exit_code' = "1"
            ELSE pc' = "Exp.get_experiment_info" /\ exit_code' = exit_code
    /\ UNCHANGED <<srv, prev, doc, exps, ei, runs, ri, cur, file>>

\* dump_experiment_traces up to the document's construction.
Exp_get_experiment_info ==
    /\ pc = "Exp.get_experiment_info"
    /\ \E st \in Statuses :
         /\ Get("experiments/get", 0, NoPath, st)
         /\ IF st = "200"
            THEN /\ doc' = Exp_document(srv.experiments[1])
                 /\ pc' = "Exp.get_runs_for_experiment"
            ELSE /\ doc' = EmptyDict
                 /\ pc' = "Exp.return"
    /\ UNCHANGED <<srv, prev, exps, ei, runs, ri, cur, file, exit_code>>

Exp_get_runs_for_experiment ==
    /\ pc = "Exp.get_runs_for_experiment"
    /\ \E st \in Statuses :
         /\ Get("runs/search", 0, NoPath, st)
         /\ runs' = IF st = "200" THEN RunsSearchBody(Exp_experiment_id) ELSE <<>>
    /\ doc' = [doc EXCEPT !.metadata.total_runs = Len(runs')]
    /\ IF runs' # <<>>
       THEN ri' = 1 /\ cur' = Exp_locals(runs'[1].info.run_id) /\ pc' = "Exp.rd.run"
       ELSE ri' = 0 /\ cur' = cur /\ pc' = "Exp.save"
    /\ UNCHANGED <<srv, prev, exps, ei, file, exit_code>>

\* get_run_details: runs/get, raise_for_status.
Exp_rd_run ==
    /\ pc = "Exp.rd.run"
    /\ \E st \in Statuses :
         /\ Get("runs/get", cur.run_id, NoPath, st)
         /\ IF st = "200"
            THEN /\ cur' = [cur EXCEPT !.run_data = RunsGetBody(cur.run_id)]
                 /\ pc' = "Exp.rd.metrics"
            ELSE /\ cur' = [cur EXCEPT !.run_details = None]
                 /\ pc' = "Exp.rd.return"
    /\ UNCHANGED <<srv, prev, doc, exps, ei, runs, ri, file, exit_code>>

Exp_rd_metrics ==
    /\ pc = "Exp.rd.metrics"
    /\ \E st \in Statuses :
         /\ Get("metrics/get-history", cur.run_id, NoPath, st)
         /\ IF st = "exc"
            THEN /\ cur' = [cur EXCEPT !.run_details = None]
                 /\ pc' = "Exp.rd.return"
            ELSE /\ cur' = [cur EXCEPT !.metrics =
                               IF st = "200" THEN srv.profile[cur.run_id].metrics ELSE <<>>]
                 /\ pc' = "Exp.rd.artifacts"
    /\ UNCHANGED <<srv, prev, doc, exps, ei, runs, ri, file, exit_code>>

Exp_run_details(run_data, metrics, artifacts) ==
    [run_data |-> run_data, metrics |-> metrics, artifacts |-> artifacts]

Exp_rd_artifacts ==
    /\ pc = "Exp.rd.artifacts"
    /\ \E st \in Statuses :
         /\ Get("artifacts/list", cur.run_id, NoPath, st)
         /\ cur' = [cur EXCEPT !.run_details =
                       IF st = "exc" THEN None
                       ELSE Exp_run_details(cur.run_data, cur.metrics,
                                IF st = "200" THEN ArtifactsListBody(cur.run_id) ELSE <<>>)]
    /\ pc' = "Exp.rd.return"
    /\ UNCHANGED <<srv, prev, doc, exps, ei, runs, ri, file, exit_code>>

\* dump_experiment_traces, lines 286-289: run_details is kept and
\* get_traces_for_run is entered.
Exp_dump_call_traces ==
    /\ pc = "Exp.rd.return"
    /\ pc' = "Exp.tr.search"
    /\ UNCHANGED <<srv, prev, doc, exps, ei, runs, ri, cur, log, file, exit_code>>

\* get_traces_for_run, method 1: the traces API.
Exp_tr_search ==
    /\ pc = "Exp.tr.search"
    /\ \E st \in Statuses :
         /\ Get("traces/search", cur.run_id, NoPath, st)
         /\ IF st = "exc"
            THEN cur' = [cur EXCEPT !.traces = <<>>] /\ pc' = "Exp.tr.return"
            ELSE /\ cur' = [cur EXCEPT !.traces =
                               IF st = "200"
                               THEN Exp_AppendApi(<<>>, srv.profile[cur.run_id].traces)
                               ELSE <<>>]
                 /\ pc' = "Exp.tr.artifacts"
    /\ UNCHANGED <<srv, prev, doc, exps, ei, runs, ri, file, exit_code>>

\* get_traces_for_run, method 2: the artifact listing.
Exp_tr_artifacts ==
    /\ pc = "Exp.tr.artifacts"
    /\ \E st \in Statuses :
         /\ Get("artifacts/list", cur.run_id, NoPath, st)
         /\ IF st = "exc"
            THEN cur' = [cur EXCEPT !.traces = <<>>] /\ pc' = "Exp.tr.return"
            ELSE LET artifacts == IF st = "200" THEN ArtifactsListBody(cur.run_id) ELSE <<>>
                     next == NextMatch(artifacts, 1, Exp_ArtifactKeywords)
                 IN  /\ cur' = [cur EXCEPT !.artifacts = artifacts, !.ai = next]
                     /\ pc' = IF next = 0 THEN "Exp.tr.run" ELSE "Exp.tr.download"
    /\ UNCHANGED <<srv, prev, doc, exps, ei, runs, ri, file, exit_code>>

\* Mutant: an exception of a download reaches the outer handler.
Exp_tr_download_Uncaught ==
    /\ pc = "Exp.tr.download"
    /\ LET artifact_path == cur.artifacts[cur.ai].path
           next == NextMatch(cur.artifacts, cur.ai + 1, Exp_ArtifactKeywords)
       IN  \E st \in Statuses :
             /\ Get("artifacts/download", cur.run_id, artifact_path, st)
             /\ IF st = "exc"
                THEN cur' = [cur EXCEPT !.traces = <<>>] /\ pc' = "Exp.tr.return"
                ELSE /\ cur' = [cur EXCEPT
                                  !.traces = IF st = "200"
                                             THEN Append(@, Exp_ArtifactRecord(artifact_path,
                                                               ArtifactText(artifact_path)))
                                             ELSE @,
                                  !.ai = next]
                     /\ pc' = IF next = 0 THEN "Exp.tr.run" ELSE "Exp.tr.download"
    /\ UNCHANGED <<srv, prev, doc, exps, ei, runs, ri, file, exit_code>>

\* Mutant: a path that already has a record is not recorded again.
Exp_tr_download_Dedup ==
    /\ pc = "Exp.tr.download"
    /\ LET artifact_path == cur.artifacts[cur.ai].path
           next == NextMatch(cur.artifacts, cur.ai + 1, Exp_ArtifactKeywords)
           seen == \E i \in 1..Len(cur.traces) :
                      /\ cur.traces[i].source = "artifact"
                      /\ cur.traces[i].artifact_path = artifact_path
       IN  /\ \E st \in Statuses :
                /\ Get("artifacts/download", cur.run_id, artifact_path, st)
                /\ cur' = [cur EXCEPT
                             !.traces = IF st = "200" /\ ~seen
                                        THEN Append(@, Exp_ArtifactRecord(artifact_path,
                                                          ArtifactText(artifact_path)))
                                        ELSE @,
                             !.ai = next]
           /\ pc' = IF next = 0 THEN "Exp.tr.run" ELSE "Exp.tr.download"
    /\ UNCHANGED <<srv, prev, doc, exps, ei, runs, ri, file, exit_code>>

\* One download of the artifact loop; an exception of the download is
\* caught inside the loop (except Exception) and the loop goes on.
Exp_tr_download ==
    /\ pc = "Exp.tr.download"
    /\ LET artifact_path == cur.artifacts[cur.ai].path
           next == NextMatch(cur.artifacts, cur.ai + 1, Exp_ArtifactKeywords)
       IN  /\ \E st \in Statuses :
                /\ Get("artifacts/download", cur.run_id, artifact_path, st)
                /\ cur' = [cur EXCEPT
                             !.traces = IF st = "200"
                                        THEN Append(@, Exp_ArtifactRecord(artifact_path,
                                                          ArtifactText(artifact_path)))
                                        ELSE @,
                             !.ai = next]
           /\ pc' = IF next = 0 THEN "Exp.tr.run" ELSE "Exp.tr.download"
    /\ UNCHANGED <<srv, prev, doc, exps, ei, runs, ri, file, exit_code>>

\* get_traces_for_run, method 3: tags and parameters of runs/get.
Exp_tr_run ==
    /\ pc = "Exp.tr.run"
    /\ \E st \in Statuses :
         /\ Get("runs/get", cur.run_id, NoPath, st)
         /\ cur' = [cur EXCEPT !.traces =
                       CASE st = "200" -> Exp_AppendMetadata(@, cur.run_id, RunsGetBody(cur.run_id))
                         [] st = "500" -> @
                         [] st = "exc" -> <<>>]
    /\ pc' = "Exp.tr.return"
    /\ UNCHANGED <<srv, prev, doc, exps, ei, runs, ri, file, exit_code>>

\* Mutant: the entry's run_info is taken from runs/get instead of from the
\* runs/search response.
Exp_run_entry_FromDetails(run, run_details, traces) ==
    [run_info |-> run_details, run_details |-> run_details, traces |-> traces]

\* run_data of dump_experiment_traces, lines 291-295.
Exp_run_entry(run, run_details, traces) ==
    [run_info |-> run, run_details |-> run_details, traces |-> traces]

\* Mutant: every run counts as one trace.
Exp_total_traces_PerRun(total, traces) == total + 1

Exp_total_traces(total, traces) == total + Len(traces)

\* Mutant: a run without traces is left out of the document.
Exp_dump_append_SkipEmpty ==
    /\ pc = "Exp.tr.return"
    /\ doc' = IF cur.traces = <<>> THEN doc
              ELSE [doc EXCEPT
                      !.metadata.total_traces = Exp_total_traces(@, cur.traces),
                      !.runs = Append(@, Exp_run_entry(runs[ri], cur.run_details, cur.traces))]
    /\ IF ri < Len(runs)
       THEN ri' = ri + 1 /\ cur' = Exp_locals(runs[ri + 1].info.run_id) /\ pc' = "Exp.rd.run"
       ELSE ri' = ri /\ cur' = cur /\ pc' = "Exp.save"
    /\ UNCHANGED <<srv, prev, exps, ei, runs, log, file, exit_code>>

\* Mutant: the document is written after every run.
Exp_dump_append_Checkpoint ==
    /\ pc = "Exp.tr.return"
    /\ doc' = [doc EXCEPT
                 !.metadata.total_traces = Exp_total_traces(@, cur.traces),
                 !.runs = Append(@, Exp_run_entry(runs[ri], cur.run_details, cur.traces))]
    /\ file' = <<doc'>>
    /\ IF ri < Len(runs)
       THEN ri' = ri + 1 /\ cur' = Exp_locals(runs[ri + 1].info.run_id) /\ pc' = "Exp.rd.run"
       ELSE ri' = ri /\ cur' = cur /\ pc' = "Exp.save"
    /\ UNCHANGED <<srv, prev, exps, ei, runs, log, exit_code>>

\* Mutant: a run whose details could not be fetched ends the loop.
Exp_dump_append_AbortOnFailure ==
    /\ pc = "Exp.tr.return"
    /\ doc' = [doc EXCEPT
                 !.metadata.total_traces = Exp_total_traces(@, cur.traces),
                 !.runs = Append(@, Exp_run_entry(runs[ri], cur.run_details, cur.traces))]
    /\ IF ri < Len(runs) /\ cur.run_details # None
       THEN ri' = ri + 1 /\ cur' = Exp_locals(runs[ri + 1].info.run_id) /\ pc' = "Exp.rd.run"
       ELSE ri' = ri /\ cur' = cur /\ pc' = "Exp.save"
    /\ UNCHANGED <<srv, prev, exps, ei, runs, log, file, exit_code>>

\* dump_experiment_traces, lines 291-300: the run's entry is appended.
Exp_dump_append ==
    /\ pc = "Exp.tr.return"
    /\ doc' = [doc EXCEPT
                 !.metadata.total_traces = Exp_total_traces(@, cur.traces),
                 !.runs = Append(@, Exp_run_entry(runs[ri], cur.run_details, cur.traces))]
    /\ IF ri < Len(runs)
       THEN ri' = ri + 1 /\ cur' = Exp_locals(runs[ri + 1].info.run_id) /\ pc' = "Exp.rd.run"
       ELSE ri' = ri /\ cur' = cur /\ pc' = "Exp.save"
    /\ UNCHANGED <<srv, prev, exps, ei, runs, log, file, exit_code>>

\* Mutant: a failed write empties the document that is returned.
Exp_save_FailureDropsDocument ==
    /\ pc = "Exp.save"
    /\ \E outcome \in SaveOutcomes :
         /\ file' = Saved(outcome, doc)
         /\ doc' = IF outcome = "write_failed" THEN EmptyDict ELSE doc
    /\ pc' = "Exp.return"
    /\ UNCHANGED <<srv, prev, exps, ei, runs, ri, cur, log, exit_code>>

\* dump_experiment_traces, lines 302-313: the document is written when an
\* output file is given; a failure of the write is logged only.
Exp_save ==
    /\ pc = "Exp.save"
    /\ \E outcome \in SaveOutcomes : file' = Saved(outcome, doc)
    /\ pc' = "Exp.return"
    /\ UNCHANGED <<srv, prev, doc, exps, ei, runs, ri, cur, log, exit_code>>

\* main, lines 344-367: the summary reads traces['metadata']; a KeyError
\* on the empty document is caught by `except Exception` and exits 1.
Exp_main_summary ==
    /\ pc = "Exp.return"
    /\ exit_code' = IF doc = EmptyDict THEN "1" ELSE "0"
    /\ pc' = "exit"
    /\ UNCHANGED <<srv, prev, doc, exps, ei, runs, ri, cur, log, file>>

Exp_Servers == {DumpServer(<<n>>, shift) : n \in 0..MaxRuns, shift \in 0..(Len(DumpProfiles) - 1)}

InitCommon ==
    /\ doc = None
    /\ exps = <<>>
    /\ ei = 0
    /\ runs = <<>>
    /\ ri = 0
    /\ cur = NoLocals
    /\ log = <<>>
    /\ file = <<>>
    /\ exit_code = "running"
    /\ prev = None

Init ==
    /\ srv \in Exp_Servers
    /\ pc = "Exp.connect"
    /\ InitCommon

Next ==
    \/ Exp_test_connection
    \/ Exp_get_experiment_info
    \/ Exp_get_runs_for_experiment
    \/ Exp_rd_run
    \/ Exp_rd_metrics
    \/ Exp_rd_artifacts
    \/ Exp_dump_call_traces
    \/ Exp_tr_search
    \/ Exp_tr_artifacts
    \/ Exp_tr_download
    \/ Exp_tr_run
    \/ Exp_dump_append
    \/ Exp_save
    \/ Exp_main_summary

Spec == Init /\ [][Next]_vars

----------------------------------------------------------------------------
(* src/mlflow_trace_dumper.py: MLflowTraceDumper                           *)

Mlf_ArtifactKeywords == <<KwTrace, KwLangraph, KwAgent>>

\* --experiment_id of the single-experiment mode.
Mlf_experiment_id == ExperimentIdOf(1)

\* dump_all_traces builds a document with "experiments",
\* dump_experiment_traces one with "runs".
Mlf_all_document ==
    [metadata |-> [total_experiments |-> 0, total_runs |-> 0, total_traces |-> 0],
     experiments |-> <<>>]
Mlf_exp_document ==
    [metadata |-> [experiment_id |-> Mlf_experiment_id, total_runs |-> 0, total_traces |-> 0],
     runs |-> <<>>]

Mlf_all_mode == "experiments" \in DOMAIN doc

Mlf_locals(run_id) ==
    [run_id |-> run_id, trace_data |-> None, artifacts |-> <<>>, ai |-> 0, traces |-> <<>>]

\* trace_data as get_trace_data creates it; the keys artifact_<path> it
\* gains are the function `downloaded`.
Mlf_trace_data(run_id, run_data) ==
    [run_id |-> run_id, run_data |-> run_data, metrics |-> <<>>,
     parameters |-> EmptyDict, tags |-> EmptyDict, artifacts |-> <<>>, traces |-> <<>>,
     downloaded |-> EmptyDict]

DictPut(d, k, v) == [x \in DOMAIN d \cup {k} |-> IF x = k THEN v ELSE d[x]]

Mlf_ArtifactRecord(path, trace_content) ==
    [trace_id |-> path, content |-> trace_content, artifact_path |-> path,
     size |-> StrLen(trace_content)]

Mlf_test_connection ==
    /\ pc = "Mlf.connect"
    /\ \E st \in Statuses :
         /\ Get("health", 0, NoPath, st)
         /\ IF st = "exc"
            THEN pc' = "exit" /\ exit_code' = "1" /\ doc' = doc
            ELSE /\ exit_code' = exit_code
                 /\ \/ doc' = Mlf_all_document /\ pc' = "Mlf.get_all_experiments"
                    \/ doc' = Mlf_exp_document /\ pc' = "Mlf.get_runs_for_experiment"
    /\ UNCHANGED <<srv, prev, exps, ei, runs, ri, cur, file>>

\* The end of `for run in runs`: dump_all_traces appends experiment_data
\* (whose "runs" is the list the loop has been writing trace_data into) and
\* goes to the next experiment; dump_experiment_traces goes to the save.
Mlf_after_runs(d, rs, all_exps, e) ==
    IF "experiments" \in DOMAIN d
    THEN /\ doc' = [d EXCEPT !.experiments =
                       Append(@, [experiment_info |-> all_exps[e], runs |-> rs])]
         /\ IF e < Len(all_exps)
            THEN ei' = e + 1 /\ pc' = "Mlf.get_runs_for_experiment"
            ELSE ei' = e /\ pc' = "Mlf.save"
    ELSE doc' = d /\ ei' = e /\ pc' = "Mlf.save"

\* Mutant: the body of a non-2xx answer is used as the experiment list.
Mlf_get_all_experiments_IgnoresStatus ==
    /\ pc = "Mlf.get_all_experiments"
    /\ \E st \in Statuses :
         /\ Get("experiments/list", 0, NoPath, st)
         /\ exps' = IF st # "exc" THEN srv.experiments ELSE <<>>
    /\ doc' = [doc EXCEPT !.metadata.total_experiments = Len(exps')]
    /\ IF exps' # <<>>
       THEN ei' = 1 /\ pc' = "Mlf.get_runs_for_experiment"
       ELSE ei' = 0 /\ pc' = "Mlf.save"
    /\ UNCHANGED <<srv, prev, runs, ri, cur, file, exit_code>>

\* get_all_experiments, lines 64-79, and the lines of dump_all_traces that
\* call it (341-343).
Mlf_get_all_experiments ==
    /\ pc = "Mlf.get_all_experiments"
    /\ \E st \in Statuses :
         /\ Get("experiments/list", 0, NoPath, st)
         /\ exps' = IF st = "200" THEN srv.experiments ELSE <<>>
    /\ doc' = [doc EXCEPT !.metadata.total_experiments = Len(exps')]
    /\ IF exps' # <<>>
       THEN ei' = 1 /\ pc' = "Mlf.get_runs_for_experiment"
       ELSE ei' = 0 /\ pc' = "Mlf.save"
    /\ UNCHANGED <<srv, prev, runs, ri, cur, file, exit_code>>

Mlf_get_runs_for_experiment ==
    /\ pc = "Mlf.get_runs_for_experiment"
    /\ LET experiment_id == IF Mlf_all_mode THEN exps[ei].experiment_id
                            ELSE Mlf_experiment_id
       IN  \E st \in Statuses :
             /\ Get("runs/search", 0, experiment_id, st)
             /\ runs' = IF st = "200" THEN RunsSearchBody(experiment_id) ELSE <<>>
    /\ LET d == [doc EXCEPT !.metadata.total_runs =
                    IF Mlf_all_mode THEN @ + Len(runs') ELSE Len(runs')]
       IN  IF runs' # <<>>
           THEN /\ doc' = d /\ ei' = ei
                /\ ri' = 1 /\ cur' = Mlf_locals(runs'[1].info.run_id) /\ pc' = "Mlf.td.run"
           ELSE /\ Mlf_after_runs(d, runs', exps, ei)
                /\ ri' = 0 /\ cur' = cur
    /\ UNCHANGED <<srv, prev, exps, file, exit_code>>

\* Mutant: only a transport error ends get_trace_data (raise_for_status is
\* forgotten).
Mlf_run_get_failed_ExcOnly(st) == st = "exc"

\* response.raise_for_status() under `except RequestException`.
Mlf_run_get_failed(st) == st # "200"

\* get_trace_data: the first runs/get.
Mlf_td_run ==
    /\ pc = "Mlf.td.run"
    /\ \E st \in Statuses :
         /\ Get("runs/get", cur.run_id, NoPath, st)
         /\ IF Mlf_run_get_failed(st)
            THEN /\ cur' = [cur EXCEPT !.trace_data = None]
                 /\ pc' = "Mlf.td.return"
            ELSE /\ cur' = [cur EXCEPT !.trace_data =
                               Mlf_trace_data(cur.run_id, RunsGetBody(cur.run_id))]
                 /\ pc' = "Mlf.td.metrics"
    /\ UNCHANGED <<srv, prev, doc, exps, ei, runs, ri, file, exit_code>>

Mlf_td_metrics ==
    /\ pc = "Mlf.td.metrics"
    /\ \E st \in Statuses :
         /\ Get("metrics/get-history", cur.run_id, NoPath, st)
         /\ CASE st = "200" ->
                   /\ cur' = [cur EXCEPT !.trace_data.metrics = srv.profile[cur.run_id].metrics]
                   /\ pc' = "Mlf.td.params"
              [] st = "500" -> cur' = cur /\ pc' = "Mlf.td.params"
              [] st = "exc" -> cur' = [cur EXCEPT !.trace_data = None] /\ pc' = "Mlf.td.return"
    /\ UNCHANGED <<srv, prev, doc, exps, ei, runs, ri, file, exit_code>>

\* get_trace_data: runs/get a second time, for parameters and tags.
Mlf_td_params ==
    /\ pc = "Mlf.td.params"
    /\ \E st \in Statuses :
         /\ Get("runs/get", cur.run_id, NoPath, st)
         /\ CASE st = "200" ->
                   /\ cur' = [cur EXCEPT
                                !.trace_data.parameters = RunsGetBody(cur.run_id).data.params,
                                !.trace_data.tags = RunsGetBody(cur.run_id).data.tags]
                   /\ pc' = "Mlf.td.artifacts"
              [] st = "500" -> cur' = cur /\ pc' = "Mlf.td.artifacts"
              [] st = "exc" -> cur' = [cur EXCEPT !.trace_data = None] /\ pc' = "Mlf.td.return"
    /\ UNCHANGED <<srv, prev, doc, exps, ei, runs, ri, file, exit_code>>

Mlf_td_artifacts ==
    /\ pc = "Mlf.td.artifacts"
    /\ \E st \in Statuses :
         /\ Get("artifacts/list", cur.run_id, NoPath, st)
         /\ CASE st = "200" ->
                   LET artifacts == ArtifactsListBody(cur.run_id)
                       next == NextMatch(artifacts, 1, Mlf_ArtifactKeywords)
                   IN  /\ cur' = [cur EXCEPT !.trace_data.artifacts = artifacts,
                                             !.artifacts = artifacts, !.ai = next]
                       /\ pc' = IF next = 0 THEN "Mlf.tr.search" ELSE "Mlf.td.download"
              [] st = "500" -> cur' = cur /\ pc' = "Mlf.tr.search"
              [] st = "exc" -> cur' = [cur EXCEPT !.trace_data = None] /\ pc' = "Mlf.td.return"
    /\ UNCHANGED <<srv, prev, doc, exps, ei, runs, ri, file, exit_code>>

Mlf_td_download ==
    /\ pc = "Mlf.td.download"
    /\ LET path == cur.artifacts[cur.ai].path
           next == NextMatch(cur.artifacts, cur.ai + 1, Mlf_ArtifactKeywords)
       IN  /\ \E st \in Statuses :
                /\ Get("artifacts/download", cur.run_id, path, st)
                /\ cur' = [cur EXCEPT
                             !.trace_data.downloaded =
                                 IF st = "200" THEN DictPut(@, path, ArtifactText(path)) ELSE @,
                             !.ai = next]
           /\ pc' = IF next = 0 THEN "Mlf.tr.search" ELSE "Mlf.td.download"
    /\ UNCHANGED <<srv, prev, doc, exps, ei, runs, ri, file, exit_code>>

\* Mutant: the artifact pass runs after a 200 of the traces API as well.
Mlf_tr_search_AlwaysArtifacts ==
    /\ pc = "Mlf.tr.search"
    /\ \E st \in Statuses :
         /\ Get("traces/search", cur.run_id, NoPath, st)
         /\ CASE st = "200" ->
                   /\ cur' = [cur EXCEPT !.traces = srv.profile[cur.run_id].traces]
                   /\ pc' = "Mlf.tr.artifacts"
              [] st = "500" -> cur' = [cur EXCEPT !.traces = <<>>] /\ pc' = "Mlf.tr.artifacts"
              [] st = "exc" -> cur' = [cur EXCEPT !.traces = <<>>] /\ pc' = "Mlf.tr.return"
    /\ UNCHANGED <<srv, prev, doc, exps, ei, runs, ri, file, exit_code>>

\* get_traces_for_run: the traces API; a 200 returns its list at once.
Mlf_tr_search ==
    /\ pc = "Mlf.tr.search"
    /\ \E st \in Statuses :
         /\ Get("traces/search", cur.run_id, NoPath, st)
         /\ CASE st = "200" ->
                   /\ cur' = [cur EXCEPT !.traces = srv.profile[cur.run_id].traces]
                   /\ pc' = "Mlf.tr.return"
              [] st = "500" -> cur' = [cur EXCEPT !.traces = <<>>] /\ pc' = "Mlf.tr.artifacts"
              [] st = "exc" -> cur' = [cur EXCEPT !.traces = <<>>] /\ pc' = "Mlf.tr.return"
    /\ UNCHANGED <<srv, prev, doc, exps, ei, runs, ri, file, exit_code>>

\* get_traces_for_run: the fallback to the artifact listing.
Mlf_tr_artifacts ==
    /\ pc = "Mlf.tr.artifacts"
    /\ \E st \in Statuses :
         /\ Get("artifacts/list", cur.run_id, NoPath, st)
         /\ IF st = "200"
            THEN LET artifacts == ArtifactsListBody(cur.run_id)
                     next == NextMatch(artifacts, 1, Mlf_ArtifactKeywords)
                 IN  /\ cur' = [cur EXCEPT !.artifacts = artifacts, !.ai = next]
                     /\ pc' = IF next = 0 THEN "Mlf.tr.return" ELSE "Mlf.tr.download"
            ELSE cur' = [cur EXCEPT !.traces = <<>>] /\ pc' = "Mlf.tr.return"
    /\ UNCHANGED <<srv, prev, doc, exps, ei, runs, ri, file, exit_code>>

Mlf_tr_download ==
    /\ pc = "Mlf.tr.download"
    /\ LET path == cur.artifacts[cur.ai].path
           next == NextMatch(cur.artifacts, cur.ai + 1, Mlf_ArtifactKeywords)
       IN  /\ \E st \in Statuses :
                /\ Get("artifacts/download", cur.run_id, path, st)
                /\ cur' = [cur EXCEPT
                             !.traces = IF st = "200"
                                        THEN Append(@, Mlf_ArtifactRecord(path, ArtifactText(path)))
                                        ELSE @,
                             !.ai = next]
           /\ pc' = IF next = 0 THEN "Mlf.tr.return" ELSE "Mlf.tr.download"
    /\ UNCHANGED <<srv, prev, doc, exps, ei, runs, ri, file, exit_code>>

\* get_trace_data, lines 235-239: the traces are stored and trace_data is
\* returned.
Mlf_td_traces ==
    /\ pc = "Mlf.tr.return"
    /\ cur' = [cur EXCEPT !.trace_data.traces = cur.traces]
    /\ pc' = "Mlf.td.return"
    /\ UNCHANGED <<srv, prev, doc, exps, ei, runs, ri, log, file, exit_code>>

\* Mutant: a run with trace data counts as one trace.
Mlf_total_traces_PerRun(total, trace_data) ==
    IF trace_data # None THEN total + 1 ELSE total

\* `if trace_data: ... total_traces += len(trace_data.get('traces', []))`
Mlf_total_traces(total, trace_data) ==
    IF trace_data # None THEN total + Len(trace_data.traces) ELSE total

Mlf_with_trace_data(run, trace_data) == [info |-> run.info, trace_data |-> trace_data]

\* The rest of the loop body once get_trace_data has returned
\* (dump_all_traces lines 351-358, dump_experiment_traces lines 279-286).
Mlf_run_done ==
    /\ pc = "Mlf.td.return"
    /\ runs' = [runs EXCEPT ![ri] = Mlf_with_trace_data(@, cur.trace_data)]
    /\ LET counted == [doc EXCEPT !.metadata.total_traces =
                           Mlf_total_traces(@, cur.trace_data)]
           d == IF Mlf_all_mode THEN counted
                ELSE [counted EXCEPT !.runs = Append(@, runs'[ri])]
       IN  IF ri < Len(runs)
           THEN /\ doc' = d /\ ei' = ei
                /\ ri' = ri + 1 /\ cur' = Mlf_locals(runs[ri + 1].info.run_id)
                /\ pc' = "Mlf.td.run"
           ELSE /\ Mlf_after_runs(d, runs', exps, ei)
                /\ ri' = ri /\ cur' = cur
    /\ UNCHANGED <<srv, prev, exps, log, file, exit_code>>

Mlf_save ==
    /\ pc = "Mlf.save"
    /\ \E outcome \in SaveOutcomes : file' = Saved(outcome, doc)
    /\ pc' = "Mlf.return"
    /\ UNCHANGED <<srv, prev, doc, exps, ei, runs, ri, cur, log, exit_code>>

\* main, lines 400-413: the summary only reads metadata keys that both
\* documents hold.
Mlf_main_summary ==
    /\ pc = "Mlf.return"
    /\ exit_code' = "0"
    /\ pc' = "exit"
    /\ UNCHANGED <<srv, prev, doc, exps, ei, runs, ri, cur, log, file>>

\* Servers of the dumps over all experiments.
AllServers(shifts) ==
    {DumpServer(Spread(n, t), shift) :
        n \in 0..MaxExperiments, t \in 0..MaxRuns, shift \in shifts}

Mlf_Init ==
    /\ srv \in AllServers({0, 3})
    /\ pc = "Mlf.connect"
    /\ InitCommon

Mlf_Next ==
    \/ Mlf_test_connection
    \/ Mlf_get_all_experiments
    \/ Mlf_get_runs_for_experiment
    \/ Mlf_td_run
    \/ Mlf_td_metrics
    \/ Mlf_td_params
    \/ Mlf_td_artifacts
    \/ Mlf_td_download
    \/ Mlf_tr_search
    \/ Mlf_tr_artifacts
    \/ Mlf_tr_download
    \/ Mlf_td_traces
    \/ Mlf_run_done
    \/ Mlf_save
    \/ Mlf_main_summary

SpecMlflow == Mlf_Init /\ [][Mlf_Next]_vars

----------------------------------------------------------------------------
(* src/mlflow/mlflow_trace_dumper.py: MLflowTraceDumper of the mlflow      *)
(* package, which has dump_all_traces only and no get_traces_for_run.      *)

Pkg_ArtifactKeywords == <<KwTrace, KwLangraph, KwAgent>>

Pkg_document ==
    [metadata |-> [total_experiments |-> 0, total_runs |-> 0, total_traces |-> 0],
     experiments |-> <<>>]

Pkg_locals(run_id) == [run_id |-> run_id, trace_data |-> None, artifacts |-> <<>>, ai |-> 0]

\* trace_data as get_trace_data creates it; the keys artifact_<path> it
\* gains are the function `downloaded`.
Pkg_trace_data(run_id, run_data) ==
    [run_id |-> run_id, run_data |-> run_data, metrics |-> <<>>,
     parameters |-> EmptyDict, tags |-> EmptyDict, artifacts |-> <<>>,
     downloaded |-> EmptyDict]

Pkg_test_connection ==
    /\ pc = "Pkg.connect"
    /\ \E st \in Statuses :
         /\ Get("health", 0, NoPath, st)
         /\ IF st = "exc"
            THEN pc' = "exit" /\ exit_code' = "1" /\ doc' = doc
            ELSE pc' = "Pkg.get_all_experiments" /\ exit_code' = exit_code /\ doc' = Pkg_document
    /\ UNCHANGED <<srv, prev, exps, ei, runs, ri, cur, file>>

\* all_traces["experiments"].append(experiment_data) and the next
\* iteration of `for experiment in experiments`.
Pkg_after_runs(d, rs, all_exps, e) ==
    /\ doc' = [d EXCEPT !.experiments =
                  Append(@, [experiment_info |-> all_exps[e], runs |-> rs])]
    /\ IF e < Len(all_exps)
       THEN ei' = e + 1 /\ pc' = "Pkg.get_runs_for_experiment"
       ELSE ei' = e /\ pc' = "Pkg.save"

Pkg_get_all_experiments ==
    /\ pc = "Pkg.get_all_experiments"
    /\ \E st \in Statuses :
         /\ Get("experiments/list", 0, NoPath, st)
         /\ exps' = IF st = "200" THEN srv.experiments ELSE <<>>
    /\ doc' = [doc EXCEPT !.metadata.total_experiments = Len(exps')]
    /\ IF exps' # <<>>
       THEN ei' = 1 /\ pc' = "Pkg.get_runs_for_experiment"
       ELSE ei' = 0 /\ pc' = "Pkg.save"
    /\ UNCHANGED <<srv, prev, runs, ri, cur, file, exit_code>>

Pkg_get_runs_for_experiment ==
    /\ pc = "Pkg.get_runs_for_experiment"
    /\ \E st \in Statuses :
         /\ Get("runs/search", 0, exps[ei].experiment_id, st)
         /\ runs' = IF st = "200" THEN RunsSearchBody(exps[ei].experiment_id) ELSE <<>>
    /\ LET d == [doc EXCEPT !.metadata.total_runs = @ + Len(runs')]
       IN  IF runs' # <<>>
           THEN /\ doc' = d /\ ei' = ei
                /\ ri' = 1 /\ cur' = Pkg_locals(runs'[1].info.run_id) /\ pc' = "Pkg.td.run"
           ELSE /\ Pkg_after_runs(d, runs', exps, ei)
                /\ ri' = 0 /\ cur' = cur
    /\ UNCHANGED <<srv, prev, exps, file, exit_code>>

Pkg_td_run ==
    /\ pc = "Pkg.td.run"
    /\ \E st \in Statuses :
         /\ Get("runs/get", cur.run_id, NoPath, st)
         /\ IF st # "200"
            THEN /\ cur' = [cur EXCEPT !.trace_data = None]
                 /\ pc' = "Pkg.td.return"
            ELSE /\ cur' = [cur EXCEPT !.trace_data =
                               Pkg_trace_data(cur.run_id, RunsGetBody(cur.run_id))]
                 /\ pc' = "Pkg.td.metrics"
    /\ UNCHANGED <<srv, prev, doc, exps, ei, runs, ri, file, exit_code>>

Pkg_td_metrics ==
    /\ pc = "Pkg.td.metrics"
    /\ \E st \in Statuses :
         /\ Get("metrics/get-history", cur.run_id, NoPath, st)
         /\ CASE st = "200" ->
                   /\ cur' = [cur EXCEPT !.trace_data.metrics = srv.profile[cur.run_id].metrics]
                   /\ pc' = "Pkg.td.params"
              [] st = "500" -> cur' = cur /\ pc' = "Pkg.td.params"
              [] st = "exc" -> cur' = [cur EXCEPT !.trace_data = None] /\ pc' = "Pkg.td.return"
    /\ UNCHANGED <<srv, prev, doc, exps, ei, runs, ri, file, exit_code>>

Pkg_td_params ==
    /\ pc = "Pkg.td.params"
    /\ \E st \in Statuses :
         /\ Get("runs/get", cur.run_id, NoPath, st)
         /\ CASE st = "200" ->
                   /\ cur' = [cur EXCEPT
                                !.trace_data.parameters = RunsGetBody(cur.run_id).data.params,
                                !.trace_data.tags = RunsGetBody(cur.run_id).data.tags]
                   /\ pc' = "Pkg.td.artifacts"
              [] st = "500" -> cur' = cur /\ pc' = "Pkg.td.artifacts"
              [] st = "exc" -> cur' = [cur EXCEPT !.trace_data = None] /\ pc' = "Pkg.td.return"
    /\ UNCHANGED <<srv, prev, doc, exps, ei, runs, ri, file, exit_code>>

Pkg_td_artifacts ==
    /\ pc = "Pkg.td.artifacts"
    /\ \E st \in Statuses :
         /\ Get("artifacts/list", cur.run_id, NoPath, st)
         /\ CASE st = "200" ->
                   LET artifacts == ArtifactsListBody(cur.run_id)
                       next == NextMatch(artifacts, 1, Pkg_ArtifactKeywords)
                   IN  /\ cur' = [cur EXCEPT !.trace_data.artifacts = artifacts,
                                             !.artifacts = artifacts, !.ai = next]
                       /\ pc' = IF next = 0 THEN "Pkg.td.return" ELSE "Pkg.td.download"
              [] st = "500" -> cur' = cur /\ pc' = "Pkg.td.return"
              [] st = "exc" -> cur' = [cur EXCEPT !.trace_data = None] /\ pc' = "Pkg.td.return"
    /\ UNCHANGED <<srv, prev, doc, exps, ei, runs, ri, file, exit_code>>

Pkg_td_download ==
    /\ pc = "Pkg.td.download"
    /\ LET path == cur.artifacts[cur.ai].path
           next == NextMatch(cur.artifacts, cur.ai + 1, Pkg_ArtifactKeywords)
       IN  /\ \E st \in Statuses :
                /\ Get("artifacts/download", cur.run_id, path, st)
                /\ cur' = [cur EXCEPT
                             !.trace_data.downloaded =
                                 IF st = "200" THEN DictPut(@, path, ArtifactText(path)) ELSE @,
                             !.ai = next]
           /\ pc' = IF next = 0 THEN "Pkg.td.return" ELSE "Pkg.td.download"
    /\ UNCHANGED <<srv, prev, doc, exps, ei, runs, ri, file, exit_code>>

\* `if trace_data: ... all_traces["metadata"]["total_traces"] += 1`
Pkg_total_traces(total, trace_data) ==
    IF trace_data # None THEN total + 1 ELSE total

\* The rest of the loop body once get_trace_data has returned.
Pkg_run_done ==
    /\ pc = "Pkg.td.return"
    /\ runs' = [runs EXCEPT ![ri] = [info |-> @.info, trace_data |-> cur.trace_data]]
    /\ LET d == [doc EXCEPT !.metadata.total_traces = Pkg_total_traces(@, cur.trace_data)]
       IN  IF ri < Len(runs)
           THEN /\ doc' = d /\ ei' = ei
                /\ ri' = ri + 1 /\ cur' = Pkg_locals(runs[ri + 1].info.run_id)
                /\ pc' = "Pkg.td.run"
           ELSE /\ Pkg_after_runs(d, runs', exps, ei)
                /\ ri' = ri /\ cur' = cur
    /\ UNCHANGED <<srv, prev, exps, log, file, exit_code>>

Pkg_save ==
    /\ pc = "Pkg.save"
    /\ \E outcome \in SaveOutcomes : file' = Saved(outcome, doc)
    /\ pc' = "Pkg.return"
    /\ UNCHANGED <<srv, prev, doc, exps, ei, runs, ri, cur, log, exit_code>>

Pkg_main_summary ==
    /\ pc = "Pkg.return"
    /\ exit_code' = "0"
    /\ pc' = "exit"
    /\ UNCHANGED <<srv, prev, doc, exps, ei, runs, ri, cur, log, file>>

Pkg_Init ==
    /\ srv \in AllServers({0, 3})
    /\ pc = "Pkg.connect"
    /\ InitCommon

Pkg_Next ==
    \/ Pkg_test_connection
    \/ Pkg_get_all_experiments
    \/ Pkg_get_runs_for_experiment
    \/ Pkg_td_run
    \/ Pkg_td_metrics
    \/ Pkg_td_params
    \/ Pkg_td_artifacts
    \/ Pkg_td_download
    \/ Pkg_run_done
    \/ Pkg_save
    \/ Pkg_main_summary

SpecPkg == Pkg_Init /\ [][Pkg_Next]_vars

----------------------------------------------------------------------------
(* src/mlflow/langraph_trace_dumper.py: LangGraphTraceDumper               *)

Lg_RunKeywords == <<KwLangraph, KwAgent, KwTrace>>
Lg_InfoKeywords == <<KwLangraph, KwAgent, KwTrace, KwWorkflow>>
Lg_FilePatterns ==
    << <<"t","r","a","c","e",".","j","s","o","n">>,
       <<"t","r","a","c","e",".","j","s","o","n","l">>,
       <<"l","a","n","g","r","a","p","h","_","t","r","a","c","e">>,
       <<"a","g","e","n","t","_","t","r","a","c","e">>,
       <<"t","r","a","c","e","_","d","a","t","a">>,
       <<"e","x","e","c","u","t","i","o","n","_","t","r","a","c","e">>,
       <<"w","o","r","k","f","l","o","w","_","t","r","a","c","e">> >>

\* _is_langraph_trace: a tag key or tag value, the run name or the
\* experiment id holds one of the keywords.
Lg_is_langraph_trace(run_data) ==
    \/ \E tag_key \in DOMAIN run_data.data.tags :
         \/ AnyKeywordIn(Lower(tag_key), Lg_RunKeywords)
         \/ AnyKeywordIn(Lower(run_data.data.tags[tag_key]), Lg_RunKeywords)
    \/ AnyKeywordIn(Lower(run_data.info.run_name), Lg_RunKeywords)
    \/ AnyKeywordIn(Lower(run_data.info.experiment_id), Lg_RunKeywords)

\* json.loads of a downloaded text: the texts the server holds parse only
\* when they are the empty object.
JsonLoads(text) ==
    IF text = <<"{", "}">> THEN [ok |-> TRUE, value |-> EmptyDict] ELSE [ok |-> FALSE]

Lg_document ==
    [metadata |-> [total_experiments |-> 0, total_runs |-> 0, total_langraph_traces |-> 0],
     langraph_traces |-> <<>>]

Lg_locals(run_id) ==
    [run_id |-> run_id, run_data |-> None, trace_data |-> None, artifacts |-> <<>>, ai |-> 0]

Lg_trace_data(run_id, run_data) ==
    [run_id |-> run_id, run_info |-> run_data.info, run_data |-> run_data.data,
     langraph_trace |-> EmptyDict, artifacts |-> <<>>, trace_files |-> <<>>]

Lg_trace_file(artifact_path, trace_content) ==
    [path |-> artifact_path, content |-> trace_content, size |-> StrLen(trace_content)]

\* The parsed JSON of a trace file, or its text when it does not parse.
Lg_langraph_trace_entry(trace_content) ==
    IF JsonLoads(trace_content).ok THEN [json |-> JsonLoads(trace_content).value]
    ELSE [text |-> trace_content]

TagPrefix == <<"t","a","g","_">>
ParamPrefix == <<"p","a","r","a","m","_">>

\* langraph_info: tag_<key> and param_<key> for the keys that hold a keyword.
Lg_langraph_info(tags, params) ==
    LET tks == {k \in DOMAIN tags : AnyKeywordIn(Lower(k), Lg_InfoKeywords)}
        pks == {k \in DOMAIN params : AnyKeywordIn(Lower(k), Lg_InfoKeywords)}
    IN  [x \in {TagPrefix \o k : k \in tks} \cup {ParamPrefix \o k : k \in pks} |->
            IF \E k \in tks : x = TagPrefix \o k
            THEN tags[CHOOSE k \in tks : x = TagPrefix \o k]
            ELSE params[CHOOSE k \in pks : x = ParamPrefix \o k]]

Lg_test_connection ==
    /\ pc = "Lg.connect"
    /\ \E st \in Statuses :
         /\ Get("health", 0, NoPath, st)
         /\ IF st = "exc"
            THEN pc' = "exit" /\ exit_code' = "1" /\ doc' = doc
            ELSE pc' = "Lg.get_all_experiments" /\ exit_code' = exit_code /\ doc' = Lg_document
    /\ UNCHANGED <<srv, prev, exps, ei, runs, ri, cur, file>>

Lg_get_all_experiments ==
    /\ pc = "Lg.get_all_experiments"
    /\ \E st \in Statuses :
         /\ Get("experiments/list", 0, NoPath, st)
         /\ exps' = IF st = "200" THEN srv.experiments ELSE <<>>
    /\ doc' = [doc EXCEPT !.metadata.total_experiments = Len(exps')]
    /\ IF exps' # <<>>
       THEN ei' = 1 /\ pc' = "Lg.get_runs_for_experiment"
       ELSE ei' = 0 /\ pc' = "Lg.save"
    /\ UNCHANGED <<srv, prev, runs, ri, cur, file, exit_code>>

\* The next iteration of `for experiment in experiments`, or the save.
Lg_next_experiment(all_exps, e) ==
    IF e < Len(all_exps)
    THEN ei' = e + 1 /\ pc' = "Lg.get_runs_for_experiment"
    ELSE ei' = e /\ pc' = "Lg.save"

Lg_get_runs_for_experiment ==
    /\ pc = "Lg.get_runs_for_experiment"
    /\ \E st \in Statuses :
         /\ Get("runs/search", 0, exps[ei].experiment_id, st)
         /\ runs' = IF st = "200" THEN RunsSearchBody(exps[ei].experiment_id) ELSE <<>>
    /\ doc' = [doc EXCEPT !.metadata.total_runs = @ + Len(runs')]
    /\ IF runs' # <<>>
       THEN /\ ei' = ei /\ ri' = 1
            /\ cur' = Lg_locals(runs'[1].info.run_id) /\ pc' = "Lg.td.run"
       ELSE /\ Lg_next_experiment(exps, ei)
            /\ ri' = 0 /\ cur' = cur
    /\ UNCHANGED <<srv, prev, exps, file, exit_code>>

\* get_langraph_trace_data: runs/get and the test of the run.
Lg_td_run ==
    /\ pc = "Lg.td.run"
    /\ \E st \in Statuses :
         /\ Get("runs/get", cur.run_id, NoPath, st)
         /\ IF st # "200" \/ ~Lg_is_langraph_trace(RunsGetBody(cur.run_id))
            THEN /\ cur' = [cur EXCEPT !.trace_data = None]
                 /\ pc' = "Lg.td.return"
            ELSE /\ cur' = [cur EXCEPT
                              !.run_data = RunsGetBody(cur.run_id),
                              !.trace_data = Lg_trace_data(cur.run_id, RunsGetBody(cur.run_id))]
                 /\ pc' = "Lg.td.artifacts"
    /\ UNCHANGED <<srv, prev, doc, exps, ei, runs, ri, file, exit_code>>

Lg_td_artifacts ==
    /\ pc = "Lg.td.artifacts"
    /\ \E st \in Statuses :
         /\ Get("artifacts/list", cur.run_id, NoPath, st)
         /\ CASE st = "200" ->
                   LET artifacts == ArtifactsListBody(cur.run_id)
                       next == NextMatch(artifacts, 1, Lg_FilePatterns)
                   IN  /\ cur' = [cur EXCEPT !.trace_data.artifacts = artifacts,
                                             !.artifacts = artifacts, !.ai = next]
                       /\ pc' = IF next = 0 THEN "Lg.td.info" ELSE "Lg.td.download"
              [] st = "500" -> cur' = cur /\ pc' = "Lg.td.info"
              [] st = "exc" -> cur' = [cur EXCEPT !.trace_data = None] /\ pc' = "Lg.td.return"
    /\ UNCHANGED <<srv, prev, doc, exps, ei, runs, ri, file, exit_code>>

\* Mutant: a downloaded file is kept only when it parses as JSON.
Lg_td_download_JsonOnly ==
    /\ pc = "Lg.td.download"
    /\ LET artifact_path == cur.artifacts[cur.ai].path
           trace_content == ArtifactText(artifact_path)
           next == NextMatch(cur.artifacts, cur.ai + 1, Lg_FilePatterns)
       IN  /\ \E st \in Statuses :
                /\ Get("artifacts/download", cur.run_id, artifact_path, st)
                /\ cur' = IF st = "200"
                          THEN [cur EXCEPT
                                  !.trace_data.trace_files =
                                      IF JsonLoads(trace_content).ok
                                      THEN Append(@, Lg_trace_file(artifact_path, trace_content))
                                      ELSE @,
                                  !.trace_data.langraph_trace =
                                      DictPut(@, artifact_path,
                                              Lg_langraph_trace_entry(trace_content)),
                                  !.ai = next]
                          ELSE [cur EXCEPT !.ai = next]
           /\ pc' = IF next = 0 THEN "Lg.td.info" ELSE "Lg.td.download"
    /\ UNCHANGED <<srv, prev, doc, exps, ei, runs, ri, file, exit_code>>

\* One download of the trace-file loop of get_langraph_trace_data, lines
\* 172-199.
Lg_td_download ==
    /\ pc = "Lg.td.download"
    /\ LET artifact_path == cur.artifacts[cur.ai].path
           trace_content == ArtifactText(artifact_path)
           next == NextMatch(cur.artifacts, cur.ai + 1, Lg_FilePatterns)
       IN  /\ \E st \in Statuses :
                /\ Get("artifacts/download", cur.run_id, artifact_path, st)
                /\ cur' = IF st = "200"
                          THEN [cur EXCEPT
                                  !.trace_data.trace_files =
                                      Append(@, Lg_trace_file(artifact_path, trace_content)),
                                  !.trace_data.langraph_trace =
                                      DictPut(@, artifact_path,
                                              Lg_langraph_trace_entry(trace_content)),
                                  !.ai = next]
                          ELSE [cur EXCEPT !.ai = next]
           /\ pc' = IF next = 0 THEN "Lg.td.info" ELSE "Lg.td.download"
    /\ UNCHANGED <<srv, prev, doc, exps, ei, runs, ri, file, exit_code>>

\* get_langraph_trace_data, lines 201-217: langraph_info is stored when it
\* is not empty, and trace_data is returned.
Lg_td_info ==
    /\ pc = "Lg.td.info"
    /\ LET langraph_info == Lg_langraph_info(cur.run_data.data.tags, cur.run_data.data.params)
       IN  cur' = [cur EXCEPT !.trace_data =
                      IF DOMAIN langraph_info # {}
                      THEN [langraph_info |-> langraph_info] @@ @
                      ELSE @]
    /\ pc' = "Lg.td.return"
    /\ UNCHANGED <<srv, prev, doc, exps, ei, runs, ri, log, file, exit_code>>

Lg_total_langraph_traces(total) == total + 1

\* Mutant: a run without trace data is appended and counted as well.
Lg_run_done_EveryRun ==
    /\ pc = "Lg.td.return"
    /\ doc' = [doc EXCEPT
                 !.langraph_traces =
                     Append(@, IF cur.trace_data # None
                               THEN [experiment_info |-> exps[ei]] @@ cur.trace_data
                               ELSE [experiment_info |-> exps[ei], run_id |-> cur.run_id]),
                 !.metadata.total_langraph_traces = Lg_total_langraph_traces(@)]
    /\ IF ri < Len(runs)
       THEN /\ ei' = ei /\ ri' = ri + 1
            /\ cur' = Lg_locals(runs[ri + 1].info.run_id) /\ pc' = "Lg.td.run"
       ELSE /\ Lg_next_experiment(exps, ei)
            /\ ri' = ri /\ cur' = cur
    /\ UNCHANGED <<srv, prev, exps, runs, log, file, exit_code>>

\* `if trace_data:` of dump_langraph_traces: only a run with trace data is
\* appended and counted.
Lg_run_done ==
    /\ pc = "Lg.td.return"
    /\ doc' = IF cur.trace_data # None
              THEN [doc EXCEPT
                      !.langraph_traces =
                          Append(@, [experiment_info |-> exps[ei]] @@ cur.trace_data),
                      !.metadata.total_langraph_traces = Lg_total_langraph_traces(@)]
              ELSE doc
    /\ IF ri < Len(runs)
       THEN /\ ei' = ei /\ ri' = ri + 1
            /\ cur' = Lg_locals(runs[ri + 1].info.run_id) /\ pc' = "Lg.td.run"
       ELSE /\ Lg_next_experiment(exps, ei)
            /\ ri' = ri /\ cur' = cur
    /\ UNCHANGED <<srv, prev, exps, runs, log, file, exit_code>>

Lg_save ==
    /\ pc = "Lg.save"
    /\ \E outcome \in SaveOutcomes : file' = Saved(outcome, doc)
    /\ pc' = "Lg.return"
    /\ UNCHANGED <<srv, prev, doc, exps, ei, runs, ri, cur, log, exit_code>>

Lg_main_summary ==
    /\ pc = "Lg.return"
    /\ exit_code' = "0"
    /\ pc' = "exit"
    /\ UNCHANGED <<srv, prev, doc, exps, ei, runs, ri, cur, log, file>>

Lg_Init ==
    /\ srv \in AllServers({0, 3})
    /\ pc = "Lg.connect"
    /\ InitCommon

Lg_Next ==
    \/ Lg_test_connection
    \/ Lg_get_all_experiments
    \/ Lg_get_runs_for_experiment
    \/ Lg_td_run
    \/ Lg_td_artifacts
    \/ Lg_td_download
    \/ Lg_td_info
    \/ Lg_run_done
    \/ Lg_save
    \/ Lg_main_summary

SpecLangGraph == Lg_Init /\ [][Lg_Next]_vars

----------------------------------------------------------------------------
(* get_traces_for_run of ExperimentTraceDumper on its own: one run whose   *)
(* tags, parameters, artifact listing and API traces are drawn from        *)
(* bounded sets.                                                           *)

\* Lists of n API traces, alternately with and without a trace_id.
ApiTraceList(n, first) ==
    [i \in 1..n |-> IF (i + first) % 2 = 0 THEN ApiTraceWithId(i) ELSE ApiTraceNoId(i)]
ApiTraceLists == {ApiTraceList(n, first) : n \in 0..MaxApiTraces, first \in {0, 1}}

RunProfiles ==
    {Profile(<<"r","u","n">>, tagkeys, paramkeys, files, traces) :
        tagkeys \in SUBSET {TagLangraph, TagAgent, TagOwner},
        paramkeys \in SUBSET {ParamTrace, ParamRate},
        files \in SeqsUpTo(Paths, MaxArtifacts),
        traces \in ApiTraceLists}

OneRunServer(profile) ==
    [experiments |-> <<Experiment(1)>>, runs |-> <<<<1>>>>, profile |-> <<profile>>]

Exp_InitTraces ==
    /\ srv \in {OneRunServer(p) : p \in RunProfiles}
    /\ pc = "Exp.tr.search"
    /\ doc = None
    /\ exps = <<>>
    /\ ei = 0
    /\ runs = <<RunObject(Exp_experiment_id, 1)>>
    /\ ri = 1
    /\ cur = Exp_locals(1)
    /\ log = <<>>
    /\ file = <<>>
    /\ exit_code = "running"
    /\ prev = None

Exp_NextTraces ==
    \/ Exp_tr_search
    \/ Exp_tr_artifacts
    \/ Exp_tr_download
    \/ Exp_tr_run

SpecExpTraces == Exp_InitTraces /\ [][Exp_NextTraces]_vars

----------------------------------------------------------------------------
(* get_langraph_trace_data of LangGraphTraceDumper on its own: one run     *)
(* whose tags, parameters and artifact listing are drawn from bounded      *)
(* sets.                                                                   *)

\* A trace file whose text is not JSON.
ExecTracePath ==
    <<"E","x","e","c","u","t","i","o","n","_","T","r","a","c","e",".","l","o","g">>

Lg_Paths == {TracePath, ExecTracePath, ModelPath}

Lg_RunProfiles ==
    {Profile(<<"r","u","n">>, tagkeys, paramkeys, files, <<>>) :
        tagkeys \in SUBSET {TagLangraph, TagOwner},
        paramkeys \in SUBSET {ParamTrace},
        files \in SeqsUpTo(Lg_Paths, MaxArtifacts)}

Lg_InitTraceData ==
    /\ srv \in {OneRunServer(p) : p \in Lg_RunProfiles}
    /\ pc = "Lg.td.run"
    /\ doc = None
    /\ exps = <<Experiment(1)>>
    /\ ei = 1
    /\ runs = <<RunObject(ExperimentIdOf(1), 1)>>
    /\ ri = 1
    /\ cur = Lg_locals(1)
    /\ log = <<>>
    /\ file = <<>>
    /\ exit_code = "running"
    /\ prev = None

Lg_NextTraceData ==
    \/ Lg_td_run
    \/ Lg_td_artifacts
    \/ Lg_td_download
    \/ Lg_td_info

SpecLgTraceData == Lg_InitTraceData /\ [][Lg_NextTraceData]_vars

----------------------------------------------------------------------------
(* The four scripts together: one of them is started.                      *)

InitAll == Init \/ Mlf_Init \/ Pkg_Init \/ Lg_Init

NextAll == Next \/ Mlf_Next \/ Pkg_Next \/ Lg_Next

SpecAll == InitAll /\ [][NextAll]_vars

----------------------------------------------------------------------------
(* A dump operation called a second time on the same dumper, against the   *)
(* same server: the first execution's document and requests are kept in    *)
(* prev, and Get replays the first execution's answers.                    *)

\* The state of the caller before a dump operation, prev apart.
Recall(first_doc, first_log) ==
    /\ prev = None
    /\ prev' = [doc |-> first_doc, log |-> first_log]
    /\ log' = <<>>
    /\ exps' = <<>> /\ ei' = 0 /\ runs' = <<>> /\ ri' = 0 /\ cur' = NoLocals
    /\ UNCHANGED <<srv, file, exit_code>>

\* The requests of the dump operation: the log without the /health of the
\* constructor.
Exp_rerun ==
    /\ pc = "Exp.return"
    /\ Recall(doc, Tail(log))
    /\ doc' = None
    /\ pc' = "Exp.get_experiment_info"

Mlf_rerun ==
    /\ pc = "Mlf.return"
    /\ Recall(doc, Tail(log))
    /\ IF Mlf_all_mode
       THEN doc' = Mlf_all_document /\ pc' = "Mlf.get_all_experiments"
       ELSE doc' = Mlf_exp_document /\ pc' = "Mlf.get_runs_for_experiment"

Pkg_rerun ==
    /\ pc = "Pkg.return"
    /\ Recall(doc, Tail(log))
    /\ doc' = Pkg_document
    /\ pc' = "Pkg.get_all_experiments"

Lg_rerun ==
    /\ pc = "Lg.return"
    /\ Recall(doc, Tail(log))
    /\ doc' = Lg_document
    /\ pc' = "Lg.get_all_experiments"

\* Servers with one or two runs in one or two experiments.
RerunServers ==
    {DumpServer(counts, shift) : counts \in {<<1>>, <<2>>, <<1, 1>>}, shift \in {0, 3}}

InitRerun ==
    /\ srv \in RerunServers
    /\ pc \in {"Exp.connect", "Mlf.connect", "Pkg.connect", "Lg.connect"}
    /\ InitCommon

NextRerun == NextAll \/ Exp_rerun \/ Mlf_rerun \/ Pkg_rerun \/ Lg_rerun

SpecRerun == InitRerun /\ [][NextRerun]_vars


----------------------------------------------------------------------------
(* Properties.                                                             *)

HasMetadata(d) == "metadata" \in DOMAIN d

\* The requests of the log to endpoint ep for run r, as indices.
Requests(ep, r) == {i \in 1..Len(log) : log[i].ep = ep /\ log[i].run = r}

Finished(prefix) == pc \in {prefix \o ".save", prefix \o ".return", "exit"}

(* ---------------- ExperimentTraceDumper ---------------- *)

RECURSIVE Exp_CountTraces(_)
Exp_CountTraces(entries) ==
    IF entries = <<>> THEN 0
    ELSE Len(Head(entries).traces) + Exp_CountTraces(Tail(entries))

\* C1: whenever ExperimentTraceDumper's document exists (while runs are being
\* processed and when it is returned), metadata.total_traces is the sum of
\* the lengths of the traces lists of the entries of document.runs.
C1_TotalTracesIsSum ==
    HasMetadata(doc) => doc.metadata.total_traces = Exp_CountTraces(doc.runs)

\* A finished dump of two runs with three and one trace records.
C1_Witness ==
    /\ pc = "exit"
    /\ HasMetadata(doc)
    /\ Len(doc.runs) = 2
    /\ Len(doc.runs[1].traces) = 3
    /\ Len(doc.runs[2].traces) = 1
    /\ doc.metadata.total_traces = 4

\* C4 (as claimed): a run all of whose runs/get calls returned 500 has an
\* entry with run_info from runs/search and an empty traces list.
C4_RunGet500MeansNoTraces ==
    HasMetadata(doc) =>
        \A i \in 1..Len(doc.runs) :
            LET r == runs[i].info.run_id
            IN  (/\ Requests("runs/get", r) # {}
                 /\ \A j \in Requests("runs/get", r) : log[j].st = "500")
                => /\ doc.runs[i].run_info = runs[i]
                   /\ doc.runs[i].traces = <<>>

C6_Keywords == {KwTrace, KwLangraph, KwAgent, KwExecution, KwWorkflow, KwFlow}
C6_HasKeyword(s) == \E kw \in C6_Keywords : Contains(Lower(s), kw)

\* The server holds no API trace for run r, no artifact path of r holds a
\* keyword, and no tag key, tag value or parameter key of r holds one.
C6_NothingToFind(r) ==
    LET p == srv.profile[r]
    IN  /\ p.traces = <<>>
        /\ \A i \in 1..Len(p.files) : ~C6_HasKeyword(p.files[i])
        /\ \A k \in DOMAIN p.tags : ~C6_HasKeyword(k) /\ ~C6_HasKeyword(p.tags[k])
        /\ \A k \in DOMAIN p.params : ~C6_HasKeyword(k)

\* C6: for a run with nothing to find, get_traces_for_run returns the empty
\* list, the run's entry has traces = [], and once the loop over the runs is
\* over every run of runs/search has its entry, in order.
C6_BareRunRecordedEmpty ==
    /\ (pc = "Exp.tr.return" /\ C6_NothingToFind(cur.run_id)) => cur.traces = <<>>
    /\ HasMetadata(doc) =>
          /\ \A i \in 1..Len(doc.runs) :
                /\ doc.runs[i].run_info = runs[i]
                /\ C6_NothingToFind(runs[i].info.run_id) => doc.runs[i].traces = <<>>
          /\ Finished("Exp") => Len(doc.runs) = Len(runs)

\* A finished dump without any failed request in which a run with nothing
\* to find is recorded next to a run with traces.
C6_Witness ==
    /\ pc = "exit"
    /\ HasMetadata(doc)
    /\ NumFaults = 0
    /\ Len(doc.runs) = 2
    /\ C6_NothingToFind(runs[2].info.run_id)
    /\ doc.runs[2].traces = <<>>
    /\ doc.runs[1].traces # <<>>

\* The number of bytes of one character in UTF-8.
Utf8Width(c) ==
    CASE c = "U+00E9" -> 2
      [] c = "U+20AC" -> 3
      [] c = "U+1F600" -> 4
      [] OTHER -> 1

RECURSIVE ByteLength(_)
ByteLength(s) == IF s = <<>> THEN 0 ELSE Utf8Width(Head(s)) + ByteLength(Tail(s))

\* The artifact-variant records of a trace list, as indices.
ArtifactRecords(traces) == {i \in 1..Len(traces) : traces[i].source = "artifact"}

\* C9 (as claimed): when the artifact pass of get_traces_for_run is over,
\* every path has as many artifact-variant records keyed by it as downloads of
\* it that returned 200, and every such record's size is the byte length of
\* its content.
C9_ArtifactSizeIsByteLength ==
    pc = "Exp.tr.run" =>
        /\ \A path \in Paths :
              Cardinality({i \in ArtifactRecords(cur.traces) :
                              cur.traces[i].trace_id = path})
                = Cardinality({j \in Requests("artifacts/download", cur.run_id) :
                                  log[j].path = path /\ log[j].st = "200"})
        /\ \A i \in ArtifactRecords(cur.traces) :
              cur.traces[i].size = ByteLength(cur.traces[i].content)

C10_KeyMatches(k) == \E kw \in {KwTrace, KwLangraph, KwAgent} : Contains(Lower(k), kw)

MetadataRecords(traces) == {i \in 1..Len(traces) : traces[i].source = "metadata"}

\* C10: when get_traces_for_run returns after a 200 from its runs/get, the
\* result holds one metadata-variant record if a tag key or a parameter key
\* holds one of trace, langraph, agent (case-insensitively) and none
\* otherwise; its trace_tags and trace_params are exactly the tags and
\* parameters with such a key.
C10_OneMetadataRecord ==
    (pc = "Exp.tr.return" /\ log # <<>> /\ log[Len(log)].ep = "runs/get"
        /\ log[Len(log)].st = "200") =>
        LET tags == srv.profile[cur.run_id].tags
            params == srv.profile[cur.run_id].params
            mt == {k \in DOMAIN tags : C10_KeyMatches(k)}
            mp == {k \in DOMAIN params : C10_KeyMatches(k)}
            metas == MetadataRecords(cur.traces)
        IN  IF mt = {} /\ mp = {}
            THEN metas = {}
            ELSE /\ metas = {Len(cur.traces)}
                 /\ cur.traces[Len(cur.traces)].trace_tags = [k \in mt |-> tags[k]]
                 /\ cur.traces[Len(cur.traces)].trace_params = [k \in mp |-> params[k]]

\* The single tag langraph_version = 1.0 and no matching parameter: one
\* metadata record with that tag and no parameters.
C10_Witness ==
    /\ pc = "Exp.tr.return"
    /\ log # <<>> /\ log[Len(log)].ep = "runs/get" /\ log[Len(log)].st = "200"
    /\ srv.profile[cur.run_id].tags = TagsOver({TagLangraph})
    /\ srv.profile[cur.run_id].params = ParamsOver({ParamRate})
    /\ Cardinality(MetadataRecords(cur.traces)) = 1
    /\ \A i \in MetadataRecords(cur.traces) :
          /\ DOMAIN cur.traces[i].trace_tags = {TagLangraph}
          /\ cur.traces[i].trace_tags[TagLangraph] = <<"1",".","0">>
          /\ DOMAIN cur.traces[i].trace_params = {}

\* A tag or parameter string that holds one of the six keywords of the
\* artifact pass, case-insensitively.
C11_Holds(s) == AnyKeywordIn(Lower(s), Exp_ArtifactKeywords)

\* C11 (as claimed): when get_traces_for_run returns after a 200 from its
\* runs/get, the metadata record holds exactly the tags whose key or value,
\* and the parameters whose key, contain one of trace, langraph, agent,
\* execution, workflow, flow; there is no metadata record when there are none.
C11_MetadataMatchesKeysAndValues ==
    (pc = "Exp.tr.return" /\ log # <<>> /\ log[Len(log)].ep = "runs/get"
        /\ log[Len(log)].st = "200") =>
        LET tags == srv.profile[cur.run_id].tags
            params == srv.profile[cur.run_id].params
            mt == {k \in DOMAIN tags : C11_Holds(k) \/ C11_Holds(tags[k])}
            mp == {k \in DOMAIN params : C11_Holds(k)}
            metas == MetadataRecords(cur.traces)
        IN  IF mt = {} /\ mp = {}
            THEN metas = {}
            ELSE /\ metas = {Len(cur.traces)}
                 /\ DOMAIN cur.traces[Len(cur.traces)].trace_tags = mt
                 /\ DOMAIN cur.traces[Len(cur.traces)].trace_params = mp

\* The status of the request of get_traces_for_run to endpoint ep, "none"
\* when it was not issued.
C12_Status(ep) ==
    IF Requests(ep, cur.run_id) = {} THEN "none"
    ELSE log[CHOOSE i \in Requests(ep, cur.run_id) : TRUE].st

ApiRecords(traces) == {i \in 1..Len(traces) : traces[i].source = "api"}

\* C12 (as claimed): when get_traces_for_run returns, the records of each pass
\* are those its own responses give, whatever happened to the requests of the
\* other passes: after a 200 of traces/search, one api record per trace of
\* the response; one artifact record per download that answered 200.
C12_PassesIndependent ==
    pc = "Exp.tr.return" =>
        /\ C12_Status("traces/search") = "200" =>
              Cardinality(ApiRecords(cur.traces)) = Len(srv.profile[cur.run_id].traces)
        /\ Cardinality(ArtifactRecords(cur.traces))
              = Cardinality({j \in Requests("artifacts/download", cur.run_id) :
                                log[j].st = "200"})

\* C13 (as claimed): once /health has answered, whatever request fails later,
\* dump_experiment_traces returns a document with a metadata section and main
\* exits with code 0.
C13_FetchFailureNotFatal ==
    (pc = "exit" /\ log[1].st # "exc") => HasMetadata(doc) /\ exit_code = "0"

\* C14 (as claimed): when get_run_details returns after a 200 from runs/get,
\* its result is a record with the fetched run_data, with metrics empty when
\* metrics/get-history failed and artifacts empty when artifacts/list failed.
C14_RunDetailsKept ==
    (pc = "Exp.rd.return" /\ C12_Status("runs/get") = "200") =>
        /\ cur.run_details # None
        /\ cur.run_details.run_data = RunsGetBody(cur.run_id)
        /\ C12_Status("metrics/get-history") # "200" => cur.run_details.metrics = <<>>
        /\ C12_Status("artifacts/list") # "200" => cur.run_details.artifacts = <<>>

(* ---------------- MLflowTraceDumper (src/mlflow_trace_dumper.py) ---------------- *)

RECURSIVE RunsOfExperiments(_)
RunsOfExperiments(es) ==
    IF es = <<>> THEN <<>> ELSE Head(es).runs \o RunsOfExperiments(Tail(es))

\* The runs embedded in a document of either dump.
DocRuns(d) == IF "experiments" \in DOMAIN d THEN RunsOfExperiments(d.experiments) ELSE d.runs

Mlf_TraceCount(run) == IF run.trace_data = None THEN 0 ELSE Len(run.trace_data.traces)

Mlf_Returned == pc \in {"Mlf.return", "exit"} /\ HasMetadata(doc)

\* C2: in the document that dump_all_traces or dump_experiment_traces returns,
\* metadata.total_traces is the sum, over the runs embedded in the document,
\* of the length of the run's trace_data.traces, a null trace_data counting 0.
C2_ReturnedTotalIsSum ==
    Mlf_Returned =>
        doc.metadata.total_traces =
            SumSeq([i \in 1..Len(DocRuns(doc)) |-> Mlf_TraceCount(DocRuns(doc)[i])])

\* dump_all_traces has returned a document with a run whose trace_data is
\* null and a run that holds trace records.
C2_Witness ==
    /\ Mlf_Returned /\ "experiments" \in DOMAIN doc
    /\ \E i, j \in 1..Len(DocRuns(doc)) :
         /\ DocRuns(doc)[i].trace_data = None
         /\ Mlf_TraceCount(DocRuns(doc)[j]) > 0

Mlf_FirstRunGetFailed(r) ==
    /\ Requests("runs/get", r) # {}
    /\ \E i \in Requests("runs/get", r) :
         /\ \A j \in Requests("runs/get", r) : i <= j
         /\ log[i].st # "200"

\* C5: when the first runs/get of a run fails (status 500 or a transport
\* error), no traces/search, artifacts/list or artifacts/download request is
\* ever issued for that run, and in the returned document the run is present
\* with trace_data null and total_traces is the count over the other runs.
C5_FailedRunGetSkipsRun ==
    \A r \in DOMAIN srv.profile :
        Mlf_FirstRunGetFailed(r) =>
            /\ \A ep \in {"traces/search", "artifacts/list", "artifacts/download"} :
                 Requests(ep, r) = {}
            /\ Mlf_Returned =>
                 /\ \E i \in 1..Len(DocRuns(doc)) :
                      /\ DocRuns(doc)[i].info.run_id = r
                      /\ DocRuns(doc)[i].trace_data = None
                 /\ doc.metadata.total_traces =
                      SumSeq([i \in 1..Len(DocRuns(doc)) |->
                                 IF DocRuns(doc)[i].info.run_id = r THEN 0
                                 ELSE Mlf_TraceCount(DocRuns(doc)[i])])

\* dump_experiment_traces has returned; the first runs/get of one run failed
\* and another run was dumped with trace records.
C5_Witness ==
    /\ Mlf_Returned /\ "runs" \in DOMAIN doc
    /\ \E r \in DOMAIN srv.profile : Mlf_FirstRunGetFailed(r)
    /\ doc.metadata.total_traces > 0

\* The server of the end-to-end scenario: one experiment "exp-1" with two
\* runs, the first with the artifact run/trace.json, the second with none.
C8_Server == DumpServer(<<2>>, 0)

\* C8: dump_all_traces against that server, every request answered 200 except
\* that traces/search may answer 500, returns total_experiments = 1,
\* total_runs = 2 and total_traces = 1.
C8_EndToEndCounts ==
    ( /\ Mlf_Returned /\ "experiments" \in DOMAIN doc
      /\ srv = C8_Server
      /\ \A i \in 1..Len(log) :
           log[i].st # "200" => log[i].ep = "traces/search" /\ log[i].st = "500" )
    => /\ doc.metadata.total_experiments = 1
       /\ doc.metadata.total_runs = 2
       /\ doc.metadata.total_traces = 1

(* ---------------- MLflowTraceDumper (src/mlflow/mlflow_trace_dumper.py) ---------------- *)

Pkg_Returned == pc \in {"Pkg.return", "exit"} /\ HasMetadata(doc)

\* The trace artifacts downloaded into a run's trace_data (its artifact_<path>
\* keys).
Pkg_EmbeddedCount(run) ==
    IF run.trace_data = None THEN 0 ELSE Cardinality(DOMAIN run.trace_data.downloaded)

\* C3: in the document that dump_all_traces of the mlflow package returns,
\* metadata.total_traces is the number of downloaded trace artifacts stored
\* under the runs' trace_data, summed over all runs of all experiments.
C3_TotalIsEmbeddedArtifacts ==
    Pkg_Returned =>
        doc.metadata.total_traces =
            SumSeq([i \in 1..Len(DocRuns(doc)) |-> Pkg_EmbeddedCount(DocRuns(doc)[i])])

(* ---------------- LangGraphTraceDumper ---------------- *)

Lg_Returned == pc \in {"Lg.return", "exit"} /\ HasMetadata(doc)

\* C7: in the document that dump_langraph_traces returns, every run that
\* runs/search returned has an entry, so the number of entries of
\* langraph_traces is metadata.total_runs.
C7_EveryRunRecorded ==
    Lg_Returned => Len(doc.langraph_traces) = doc.metadata.total_runs

(* ---------------- All dumpers ---------------- *)

AnyReturned ==
    /\ pc \in {"Exp.return", "Mlf.return", "Pkg.return", "Lg.return", "exit"}
    /\ HasMetadata(doc)

\* The experiment a runs/search request asked for (ExperimentTraceDumper's
\* is the one of its command line).
SearchedExperiment(i) == IF log[i].path = NoPath THEN Exp_experiment_id ELSE log[i].path

\* C15: when a dump of any of the dumpers has returned, every experiment of a
\* 200 experiments/list has had its runs/search and every run of a 200
\* runs/search has had its runs/get, whatever requests failed before.
C15_LaterRunsProcessed ==
    AnyReturned =>
         /\ \A i \in 1..Len(log) :
              (log[i].ep = "experiments/list" /\ log[i].st = "200") =>
                 \A e \in 1..Len(srv.experiments) :
                    \E j \in 1..Len(log) :
                       /\ log[j].ep = "runs/search"
                       /\ log[j].path = srv.experiments[e].experiment_id
         /\ \A i \in 1..Len(log) :
              (log[i].ep = "runs/search" /\ log[i].st = "200") =>
                 LET body == RunsSearchBody(SearchedExperiment(i))
                 IN  \A k \in 1..Len(body) : Requests("runs/get", body[k].info.run_id) # {}

\* dump_experiment_traces of ExperimentTraceDumper has returned: the runs/get
\* of the first run raised a transport error, and the second run of the same
\* runs/search was fetched and has trace records.
C15_Witness ==
    /\ pc = "Exp.return" /\ HasMetadata(doc)
    /\ Len(runs) = 2
    /\ \E i \in Requests("runs/get", runs[1].info.run_id) : log[i].st = "exc"
    /\ \E i \in Requests("runs/get", runs[2].info.run_id) : log[i].st = "200"
    /\ doc.runs[2].traces # <<>>

\* C16: the first request of every script is /health. When it raised a
\* transport error, nothing else is requested, no file is written and the
\* exit code is 1; when it answered with any status, 200 or not, the script
\* goes on to the dump and does not exit before the dump's first request.
C16_HealthFatalOnTransportError ==
    log # <<>> =>
        /\ log[1].ep = "health"
        /\ log[1].st = "exc" =>
              /\ Len(log) = 1 /\ file = <<>>
              /\ pc = "exit" /\ exit_code = "1" /\ ~HasMetadata(doc)
        /\ log[1].st # "exc" =>
              /\ Len(log) = 1 => pc \notin {"exit", "Exp.return", "Mlf.return", "Pkg.return", "Lg.return"}
              /\ pc = "exit" => Len(log) >= 2

\* /health answered 500 to ExperimentTraceDumper and the dump was carried
\* out and written.
C16_Witness ==
    /\ pc = "exit" /\ exit_code = "0"
    /\ log[1].ep = "health" /\ log[1].st = "500"
    /\ HasMetadata(doc) /\ "experiment_info" \in DOMAIN doc
    /\ Len(file) = 1 /\ file[1] = doc
    /\ doc.metadata.total_traces > 0

SavePcs == {"Exp.save", "Mlf.save", "Pkg.save", "Lg.save"}
ReturnPcs == {"Exp.return", "Mlf.return", "Pkg.return", "Lg.return"}

\* C17: the step that saves the document, whether the write succeeds, fails
\* or is not asked for, returns the document unchanged and leaves the exit
\* code alone; the exit code main then gives depends on the document only
\* (1 for the empty document of ExperimentTraceDumper, 0 otherwise).
C17_WriteFailureKeepsDocument ==
    [][ /\ pc \in SavePcs => (doc' = doc /\ exit_code' = exit_code /\ pc' \in ReturnPcs)
        /\ (pc \in ReturnPcs /\ pc' = "exit") =>
              exit_code' = (IF doc = EmptyDict THEN "1" ELSE "0") ]_vars

\* The write of a dump with trace records failed part-way: a truncated file
\* is left, the document is whole and the exit code is 0.
C17_Witness ==
    /\ pc = "exit" /\ exit_code = "0"
    /\ file = <<Truncated>>
    /\ HasMetadata(doc) /\ "experiments" \in DOMAIN doc
    /\ doc.metadata.total_traces > 0

C19_NoRequestRepeated ==
    \A i, j \in 1..Len(log) :
        i < j => <<log[i].ep, log[i].run, log[i].path>> # <<log[j].ep, log[j].run, log[j].path>>

(* ---------------- ExperimentTraceDumper: document.runs ---------------- *)

\* The runs of the runs/search response of this dump; no run when the
\* request failed.
C20_SearchResponse ==
    IF \E i \in 1..Len(log) : log[i].ep = "runs/search" /\ log[i].st = "200"
    THEN RunsSearchBody(Exp_experiment_id)
    ELSE <<>>

\* C20: the document returned by ExperimentTraceDumper.dump_experiment_traces
\* has in runs one entry per run of the runs/search response, in the
\* response's order, and metadata.total_runs is the number of entries.
C20_OneEntryPerRunInOrder ==
    (pc \in {"Exp.return", "exit"} /\ HasMetadata(doc) /\ "experiment_info" \in DOMAIN doc) =>
        /\ Len(doc.runs) = Len(C20_SearchResponse)
        /\ \A i \in 1..Len(doc.runs) : doc.runs[i].run_info = C20_SearchResponse[i]
        /\ doc.metadata.total_runs = Len(doc.runs)

\* A returned document of two runs where the first run's runs/get failed and
\* the second run has trace records.
C20_Witness ==
    /\ pc = "Exp.return"
    /\ HasMetadata(doc) /\ "experiment_info" \in DOMAIN doc
    /\ Len(doc.runs) = 2
    /\ doc.runs[1].run_details = None
    /\ doc.runs[2].run_details # None
    /\ doc.runs[2].traces # <<>>
    /\ doc.runs[1].run_info # doc.runs[2].run_info

(* ---------------- dump_all_traces, dump_langraph_traces: no experiment list ---------------- *)

C21_ListFailed ==
    \E i \in 1..Len(log) : log[i].ep = "experiments/list" /\ log[i].st # "200"

C21_TraceCount ==
    IF "langraph_traces" \in DOMAIN doc THEN doc.metadata.total_langraph_traces
    ELSE doc.metadata.total_traces

C21_Container ==
    IF "langraph_traces" \in DOMAIN doc THEN doc.langraph_traces ELSE doc.experiments

\* C21: once experiments/list has failed (non-2xx or transport error) in
\* dump_all_traces or dump_langraph_traces, it stays the last request, the
\* dump is at its save step or past it, the document has zero experiments,
\* runs and traces and an empty container, and what the save step leaves in
\* the file is this document (or nothing, or a cut-off file when the write
\* itself fails or no file was asked for).
C21_FailedListGivesEmptyDump ==
    C21_ListFailed =>
        /\ log[Len(log)].ep = "experiments/list"
        /\ pc \in SavePcs \cup ReturnPcs \cup {"exit"}
        /\ doc.metadata.total_experiments = 0
        /\ doc.metadata.total_runs = 0
        /\ C21_TraceCount = 0
        /\ C21_Container = <<>>
        /\ pc \in SavePcs => file = <<>>
        /\ Len(file) <= 1
        /\ (Len(file) = 1 /\ file[1] # Truncated) => file[1] = doc

\* dump_all_traces of the root script has returned after a transport error
\* of experiments/list on a server that has runs, and the file holds the
\* document.
C21_Witness ==
    /\ pc = "Mlf.return"
    /\ C21_ListFailed
    /\ log[Len(log)].st = "exc"
    /\ srv.experiments # <<>>
    /\ Len(file) = 1 /\ file[1] = doc

(* ---------------- ExperimentTraceDumper.get_traces_for_run: the result ---------------- *)

C22_NoTransportError == \A i \in 1..Len(log) : log[i].st # "exc"

C22_Answered(ep) == \E i \in 1..Len(log) : log[i].ep = ep /\ log[i].st = "200"

C22_IsDownload(e) == e.ep = "artifacts/download"
C22_IsMatch(artifact) == C6_HasKeyword(artifact.path)

\* The items of the traces/search response and the keyword-matching entries
\* of the artifact listing, as the run's requests received them.
C22_ApiItems == IF C22_Answered("traces/search") THEN srv.profile[1].traces ELSE <<>>
C22_Listed ==
    IF C22_Answered("artifacts/list") THEN SelectSeq(ArtifactsListBody(1), C22_IsMatch)
    ELSE <<>>

\* The paths of the listing entries whose download was answered 200.
RECURSIVE C22_Downloaded(_, _)
C22_Downloaded(listed, downloads) ==
    IF listed = <<>> \/ downloads = <<>> THEN <<>>
    ELSE (IF Head(downloads).st = "200" THEN <<Head(listed).path>> ELSE <<>>)
            \o C22_Downloaded(Tail(listed), Tail(downloads))

C22_Paths == C22_Downloaded(C22_Listed, SelectSeq(log, C22_IsDownload))

\* C22: when no transport error occurred, the list get_traces_for_run
\* returns is the api records, one per item of the response and in its
\* order, then the artifact records, one per downloaded listing entry and in
\* listing order (a path listed twice gives two), then at most one metadata
\* record.
C22_ResultIsConcatenation ==
    (pc = "Exp.tr.return" /\ C22_NoTransportError) =>
        LET traces == cur.traces
            a == Len(C22_ApiItems)
            b == a + Len(C22_Paths)
        IN  /\ Len(traces) \in {b, b + 1}
            /\ \A i \in 1..a :
                  traces[i].source = "api" /\ traces[i].data = C22_ApiItems[i]
            /\ \A i \in 1..Len(C22_Paths) :
                  /\ traces[a + i].source = "artifact"
                  /\ traces[a + i].artifact_path = C22_Paths[i]
            /\ Len(traces) = b + 1 => traces[b + 1].source = "metadata"

\* Two api records, two artifact records of one path that is listed twice
\* and holds three keywords, and a metadata record.
C22_Witness ==
    /\ pc = "Exp.tr.return" /\ C22_NoTransportError
    /\ Len(cur.traces) = 5
    /\ C22_Paths = <<AgentPath, AgentPath>>
    /\ cur.traces[3].source = "artifact" /\ cur.traces[4] = cur.traces[3]
    /\ cur.traces[5].source = "metadata"

(* ---------------- ExperimentTraceDumper.get_traces_for_run: api records ---------------- *)

\* The trace_id the record of the i-th item (counted from one) of the
\* response is to have.
C23_TraceId(i) ==
    LET item == srv.profile[1].traces[i]
    IN  IF "trace_id" \in DOMAIN item THEN item.trace_id ELSE [api_trace |-> i - 1]

\* The outer handler of get_traces_for_run has not discarded the list.
C23_ListKept ==
    \A i \in 1..Len(log) : log[i].st = "exc" => log[i].ep = "artifacts/download"

\* C23: when traces/search was answered 200, the list of get_traces_for_run
\* holds right after method 1 exactly one api record per item of the
\* response, the i-th (from zero) with the item's own trace_id or else
\* api_trace_<i>; these stay the first records of the list the function
\* returns.
C23_OneApiRecordPerItem ==
    (log # <<>> /\ log[1].st = "200" /\ C23_ListKept) =>
        LET items == srv.profile[1].traces
            api == SelectSeq(cur.traces, LAMBDA t : t.source = "api")
        IN  /\ Len(api) = Len(items)
            /\ SubSeq(cur.traces, 1, Len(items)) = api
            /\ \A i \in 1..Len(items) :
                  api[i].data = items[i] /\ api[i].trace_id = C23_TraceId(i)

\* The response had two items, the first with a trace_id of its own and the
\* second without; the function has returned.
C23_Witness ==
    /\ pc = "Exp.tr.return" /\ C23_ListKept
    /\ Len(srv.profile[1].traces) = 2
    /\ log[1].st = "200"
    /\ Len(cur.traces) >= 2
    /\ cur.traces[1].source = "api" /\ cur.traces[2].source = "api"
    /\ cur.traces[1].trace_id = [own |-> 1]
    /\ cur.traces[2].trace_id = [api_trace |-> 1]

(* ---------------- ExperimentTraceDumper.get_traces_for_run: failed downloads ---------------- *)

C24_Downloads == SelectSeq(log, C22_IsDownload)

C24_FailedDownload == \E i \in 1..Len(C24_Downloads) : C24_Downloads[i].st # "200"

\* C24: when get_traces_for_run returns and the only requests that raised
\* were downloads, a download that failed (non-200 or exception) has no
\* record, every matching artifact that downloaded has its record, the api
\* records are all there, and the metadata record is there when runs/get was
\* answered and a tag or parameter key matches.
C24_FailedDownloadSkipsOneArtifact ==
    (pc = "Exp.tr.return" /\ C23_ListKept) =>
        LET traces == cur.traces
            artifact == SelectSeq(traces, LAMBDA t : t.source = "artifact")
            api == SelectSeq(traces, LAMBDA t : t.source = "api")
            tags == srv.profile[1].tags
            params == srv.profile[1].params
        IN  /\ Len(C24_Downloads) = Len(C22_Listed)
            /\ [i \in 1..Len(artifact) |-> artifact[i].artifact_path] = C22_Paths
            /\ Len(api) = Len(C22_ApiItems)
            /\ MetadataRecords(traces) # {} <=>
                  /\ C22_Answered("runs/get")
                  /\ \E k \in DOMAIN tags \cup DOMAIN params : C10_KeyMatches(k)

\* The first of two matching artifacts failed to download with an
\* exception; the result has the api record, the second artifact's record
\* and the metadata record.
C24_Witness ==
    /\ pc = "Exp.tr.return"
    /\ Len(C24_Downloads) = 2
    /\ C24_Downloads[1].st = "exc" /\ C24_Downloads[2].st = "200"
    /\ C24_Downloads[1].path # C24_Downloads[2].path
    /\ Len(cur.traces) = 3
    /\ cur.traces[1].source = "api"
    /\ cur.traces[2].source = "artifact"
    /\ cur.traces[2].artifact_path = C24_Downloads[2].path
    /\ cur.traces[3].source = "metadata"

(* ---------------- LangGraphTraceDumper.get_langraph_trace_data ---------------- *)

C25_Keywords == {KwLangraph, KwAgent, KwTrace}
C25_Holds(text) == \E kw \in C25_Keywords : Contains(Lower(text), kw)

\* Run r of the server is trace-bearing: a tag key, a tag value, its name or
\* its experiment id holds a keyword.
C25_TraceBearing(r) ==
    LET tags == srv.profile[r].tags
    IN  \/ \E k \in DOMAIN tags : C25_Holds(k) \/ C25_Holds(tags[k])
        \/ C25_Holds(srv.profile[r].run_name)
        \/ C25_Holds(RunExperimentId(r))

C25_DetailRequests(r) == Requests("artifacts/list", r) \cup Requests("artifacts/download", r)

C25_NoTransportError(r) ==
    \A i \in 1..Len(log) : log[i].run = r => log[i].st # "exc"

\* The classification itself: when runs/get was answered 200, None is
\* returned for the runs that are not trace-bearing, and for them only, and
\* then without a detail request.
C25_ClassifiedFromRunsGet ==
    (pc = "Lg.td.return" /\ C25_NoTransportError(cur.run_id)
        /\ \E i \in Requests("runs/get", cur.run_id) : log[i].st = "200") =>
        /\ cur.trace_data = None <=> ~C25_TraceBearing(cur.run_id)
        /\ cur.trace_data = None => C25_DetailRequests(cur.run_id) = {}

\* C25: when get_langraph_trace_data returns for a run, it returns None
\* having issued no artifacts/list or artifacts/download request exactly
\* when the run is not trace-bearing; for a trace-bearing run, absent
\* transport errors, it returns a record.
C25_NoneExactlyWhenNotTraceBearing ==
    (pc = "Lg.td.return" /\ C25_NoTransportError(cur.run_id)) =>
        /\ (cur.trace_data = None /\ C25_DetailRequests(cur.run_id) = {})
              <=> ~C25_TraceBearing(cur.run_id)
        /\ C25_TraceBearing(cur.run_id) => cur.trace_data # None

(* ---------------- LangGraphTraceDumper: trace files ---------------- *)

C26_IsTraceFile(artifact) ==
    \E i \in 1..Len(Lg_FilePatterns) : Contains(Lower(artifact.path), Lg_FilePatterns[i])

\* The paths of the trace files of the listing whose download was answered
\* 200, in listing order.
C26_Downloaded ==
    C22_Downloaded(SelectSeq(ArtifactsListBody(cur.run_id), C26_IsTraceFile),
                   SelectSeq(log, C22_IsDownload))

\* C26: in every record get_langraph_trace_data returns, trace_files holds
\* the raw text of each trace file that downloaded with 200, parsing or
\* not, the keys of langraph_trace are the paths of trace_files, and the
\* value of a key is the parsed JSON when the text parses and the text
\* otherwise.
C26_TraceFilesRetained ==
    (pc = "Lg.td.return" /\ cur.trace_data # None) =>
        LET trace_files == cur.trace_data.trace_files
            langraph_trace == cur.trace_data.langraph_trace
        IN  /\ [i \in 1..Len(trace_files) |-> trace_files[i].path] = C26_Downloaded
            /\ \A i \in 1..Len(trace_files) :
                  trace_files[i].content = ArtifactText(trace_files[i].path)
            /\ DOMAIN langraph_trace = {trace_files[i].path : i \in 1..Len(trace_files)}
            /\ \A path \in DOMAIN langraph_trace :
                  langraph_trace[path] =
                      IF JsonLoads(ArtifactText(path)).ok
                      THEN [json |-> JsonLoads(ArtifactText(path)).value]
                      ELSE [text |-> ArtifactText(path)]

\* A returned record with two trace files: one parses as JSON and one does
\* not.
C26_Witness ==
    /\ pc = "Lg.td.return" /\ cur.trace_data # None
    /\ Len(cur.trace_data.trace_files) = 2
    /\ DOMAIN cur.trace_data.langraph_trace = {TracePath, ExecTracePath}
    /\ "json" \in DOMAIN cur.trace_data.langraph_trace[TracePath]
    /\ cur.trace_data.langraph_trace[ExecTracePath] = [text |-> ArtifactText(ExecTracePath)]

(* ---------------- All dumpers: the output file ---------------- *)

\* C27: in a run of any of the scripts the output file is written only by
\* the save step of the dump operation and only while it is empty (at most
\* once); once it is written no request follows; and a run that ends with
\* exit code 1 has written nothing.
C27_FileWrittenOnceAtTheEnd ==
    [][ /\ file' # file => (pc \in SavePcs /\ file = <<>> /\ Len(file') = 1 /\ log' = log)
        /\ file # <<>> => log' = log
        /\ exit_code' = "1" => file' = <<>> ]_vars

\* dump_all_traces of the package has returned after a traversal of two
\* experiments, one request of which failed, and the file holds the
\* document.
C27_Witness ==
    /\ pc = "Pkg.return"
    /\ Len(file) = 1 /\ file[1] = doc
    /\ Len(doc.experiments) = 2
    /\ NumFaults = 1
    /\ Len(log) > 4

(* ---------------- MLflowTraceDumper.get_traces_for_run (root script) ---------------- *)

\* The requests get_traces_for_run issued for the run of log entry s (its
\* traces/search): those that follow it for the same run.
C28_After(s) == {j \in (s + 1)..Len(log) : log[j].run = log[s].run}

\* C28: get_traces_for_run of the root script requests artifacts/list and
\* artifacts/download only after a non-200 status of traces/search; after a
\* 200 it issues no further request and returns the list of the response:
\* no artifact record is in it.
C28_ArtifactPassIsFallback ==
    /\ \A s \in 1..Len(log) :
          log[s].ep = "traces/search" =>
             /\ C28_After(s) # {} => log[s].st = "500"
             /\ \A j \in C28_After(s) :
                   log[j].ep \in {"artifacts/list", "artifacts/download"}
    /\ (pc = "Mlf.tr.return" /\ \E s \in Requests("traces/search", cur.run_id) : log[s].st = "200")
          => /\ cur.traces = srv.profile[cur.run_id].traces
             /\ \A i \in 1..Len(cur.traces) : "artifact_path" \notin DOMAIN cur.traces[i]

\* traces/search answered 200 for a run that has an API trace and a listed
\* artifact holding a keyword; the function returns the API trace alone.
C28_Witness ==
    /\ pc = "Mlf.tr.return"
    /\ \E s \in Requests("traces/search", cur.run_id) : log[s].st = "200"
    /\ Len(cur.traces) = 1
    /\ \E i \in 1..Len(srv.profile[cur.run_id].files) :
          C6_HasKeyword(srv.profile[cur.run_id].files[i])
    /\ \E j \in Requests("artifacts/download", cur.run_id) : log[j].st = "200"

(* ---------------- LangGraphTraceDumper.dump_langraph_traces: the entries ---------------- *)

\* The experiment of the server whose runs/search lists run r.
C29_ExperimentOf(r) ==
    srv.experiments[CHOOSE e \in 1..Len(srv.runs) :
                        \E j \in 1..Len(srv.runs[e]) : srv.runs[e][j] = r]

\* C29: while dump_langraph_traces processes runs and in the document it
\* returns, metadata.total_langraph_traces is the number of entries of
\* langraph_traces and is at most metadata.total_runs, and every entry is of
\* a trace-bearing run and carries the experiment_info of that run's
\* experiment.
C29_EntriesAreCountedTraceBearingRuns ==
    (HasMetadata(doc) /\ "langraph_traces" \in DOMAIN doc) =>
        /\ doc.metadata.total_langraph_traces = Len(doc.langraph_traces)
        /\ doc.metadata.total_langraph_traces <= doc.metadata.total_runs
        /\ \A i \in 1..Len(doc.langraph_traces) :
              LET entry == doc.langraph_traces[i]
              IN  /\ C25_TraceBearing(entry.run_id)
                  /\ entry.experiment_info = C29_ExperimentOf(entry.run_id)

\* A returned dump of one experiment with two runs, every request answered
\* 200: one run is trace-bearing and has the only entry.
C29_Witness ==
    /\ pc = "Lg.return"
    /\ NumFaults = 0
    /\ doc.metadata.total_runs = 2
    /\ doc.metadata.total_experiments = 1
    /\ Len(doc.langraph_traces) = 1

=============================================================================
